---------------------------- MODULE Spec2Model ----------------------------
(***************************************************************************)
(* Model of the slidekick backend (src/backend): the session state store   *)
(* (StateManager), the bounded audio queue (WebSocketAudioProcessor) and   *)
(* the per-connection session of main.py (websocket_endpoint) with its     *)
(* receive, forward and response loops, the interruption gate and the      *)
(* background summary tasks.                                               *)
(*                                                                         *)
(* Three specifications share the variables:                               *)
(*   SpecState  - one StateManager driven by arbitrary calls               *)
(*   SpecQueue  - one WebSocketAudioProcessor driven by arbitrary calls    *)
(*   Spec       - one websocket session (FairSpec: Spec with fairness)     *)
(***************************************************************************)
EXTENDS Integers, Sequences, FiniteSets, TLC

VARIABLES
    \* ---- StateManager (state_manager.py) ----
    current_slide,      \* StateManager.current_slide
    total_slides,       \* StateManager.total_slides
    transcript_history, \* StateManager.transcript_history (most recent entries)
    sm_locked,          \* StateManager._lock: TRUE while a call holds it
    sm_last,            \* ghost: the last StateManager call, its pre-state and outcome
    sm_init_total,      \* ghost: total_slides given to __init__
    sm_only_nav,        \* ghost: TRUE while only navigate has been called
    sm_nexts,           \* ghost: calls so far, all navigate("next") with total 0; else -1
    \* ---- concurrent users of one StateManager (SpecConc) ----
    task_op,            \* the call each task makes
    task_pc,            \* "start" / "locked" (inside async with) / "done"
    \* ---- ToolExecutor (tool_executor.py) ----
    te_tools,           \* ToolExecutor._tools: name -> handler
    te_declarations,    \* ToolExecutor.declarations: name -> declaration
    te_last,            \* ghost: the last executor call, its pre-state and outcome
    \* ---- WebSocketAudioProcessor (audio_processor.py) ----
    queue_maxsize,      \* asyncio.Queue maxsize
    audio_queue,        \* contents of asyncio.Queue, head first
    is_running,         \* _is_running
    chunk_count,        \* _chunk_count
    ap_last,            \* ghost (SpecQueue): the last processor call and its outcome
    pushed,             \* ghost: every message accepted by push, in push order
    push_base,          \* ghost (SpecQueue): Len(pushed) at the last start/stop
    pops,               \* ghost (SpecQueue): number of pops since the last start/stop
    evicted,            \* ghost: payloads dropped by the drop-oldest policy
    cleared,            \* ghost: payloads dropped by stop()
    next_data,          \* ghost: payload of the next frame (frames are numbered)
    \* ---- websocket_endpoint (main.py) ----
    phase,              \* CONNECTING / ACTIVE / CLOSING / CLOSED (NONE: no session)
    is_connected,       \* the nonlocal is_connected flag
    allow_interruption, \* asyncio.Event: TRUE = set (gate open)
    rx_pc,              \* receive_websocket_data: where it is suspended
    fwd_pc,             \* forward_audio_to_gemini: where it is suspended
    resp_pc,            \* handle_gemini_responses: where it is suspended
    tool_batch,         \* function calls of the batch not yet finished, head first
    function_responses, \* results collected by process_tool_calls
    resp_text,          \* the response unit in hand carries transcript text
    summaries,          \* background summary tasks: how many generate / send
    sent,               \* ghost: messages handed to send_realtime_input, in order
    n_sum,              \* ghost: summary requests received (frames and tool calls)
    n_texts,            \* ghost: transcript texts received from the inference stream
    transcript_events,  \* ghost: texts of the transcript events the client received
    \* ---- transcript buffer of the StateManager ----
    tr_count,           \* ghost: add_transcript calls made so far
    tr_returned,        \* ghost: the last get_transcript call and the string it returned
    \* ---- a consumer of the audio queue ----
    ap_getter,          \* "idle" / "waiting" (suspended in get_audio)
    ap_torn_down,       \* ghost: stop() has run and start() has not run since
    \* ---- session metadata of the StateManager ----
    session_metadata,   \* StateManager.session_metadata: started_at and session_id
    sm_clock,           \* the reading datetime.now() gives at this moment
    \* ---- a reader and a writer task on one StateManager (SpecContext) ----
    sm_context,         \* the dict get_context returned last, as its caller holds it
    ctx_pc,             \* position of each task
    ctx_running,        \* the task the event loop is running, "none" between tasks
    ctx_current,        \* the reader's local "current" (get_current_slide result)
    ctx_rounds,         \* loop iterations each task has started
    \* ---- the tools of a session called through the executor ----
    tool_last,          \* ghost: the last execute_tool call of SpecTools and its outcome
    slide_command,      \* ghost: the slide_command event being sent to the client
    client_events       \* ghost: what the endpoint has sent to the client so far

storeGhost == <<sm_last, sm_init_total, sm_only_nav, sm_nexts>>
stateVars == <<current_slide, total_slides, transcript_history, sm_locked, storeGhost>>
concVars == <<task_op, task_pc>>
execVars == <<te_tools, te_declarations, te_last>>
relayVars == <<transcript_events>>
transcriptVars == <<tr_count, tr_returned>>
consumerVars == <<ap_getter, ap_torn_down>>
metaVars == <<session_metadata, sm_clock>>
ctxVars == <<sm_context, ctx_pc, ctx_running, ctx_current, ctx_rounds>>
toolVars == <<tool_last, slide_command>>
eventVars == <<client_events>>
moreVars == <<transcriptVars, consumerVars, metaVars, ctxVars, toolVars, eventVars>>
auxVars == <<concVars, execVars, relayVars, moreVars>>
exceptConc == <<execVars, relayVars, moreVars>>
exceptExec == <<concVars, relayVars, moreVars>>
exceptRelay == <<concVars, execVars, moreVars>>
exceptTranscript == <<concVars, execVars, relayVars, consumerVars, metaVars, ctxVars, toolVars, eventVars>>
exceptConsumer == <<concVars, execVars, relayVars, transcriptVars, metaVars, ctxVars, toolVars, eventVars>>
exceptMeta == <<concVars, execVars, relayVars, transcriptVars, consumerVars, ctxVars, toolVars, eventVars>>
exceptTool == <<concVars, execVars, relayVars, transcriptVars, consumerVars, metaVars,
                ctxVars, eventVars>>
exceptEvents == <<concVars, execVars, relayVars, transcriptVars, consumerVars, metaVars,
                  ctxVars, toolVars>>
exceptMetaCtx == <<concVars, execVars, relayVars, transcriptVars, consumerVars, toolVars, eventVars>>
queueVars == <<queue_maxsize, audio_queue, is_running, chunk_count, ap_last,
               pushed, push_base, pops, evicted, cleared, next_data>>
sessionVars == <<phase, is_connected, allow_interruption, rx_pc, fwd_pc, resp_pc,
                 tool_batch, function_responses, resp_text, summaries, sent,
                 n_sum, n_texts>>
vars == <<stateVars, queueVars, sessionVars, auxVars>>

Min(a, b) == IF a <= b THEN a ELSE b
Max(a, b) == IF a >= b THEN a ELSE b

(***************************************************************************)
(* Bounds of the model.                                                    *)
(***************************************************************************)
MaxTotal == 3       \* largest slide count given to the store
MaxIndex == 4       \* largest slide index given to the store
MaxCap == 2         \* largest queue capacity tried in SpecQueue
MaxPushes == 4      \* frames offered to the processor in SpecQueue
SessionQueueSize == 2   \* capacity of the session's queue (from_websocket() gives 100)
MaxChunks == 3      \* binary frames the client sends in one session
MaxSummaries == 1   \* summary requests (frames and tool calls) in one session
MaxTexts == 1       \* transcript texts the inference stream delivers in one session
MaxSessionSlide == 2    \* largest slide index reached in a session

\* capacity of the transcript buffer (entries)
TranscriptCap == 100
MaxToolIndex == 3        \* largest slide number and index of the tool calls (SpecTools)
MaxRounds == 2          \* loop iterations of the reader and of the writer (SpecContext)
MaxCtxSlide == 2        \* largest index the writer sets (SpecContext)
MaxClock == 1           \* readings of datetime.now() after construction (SpecState)
MaxStateEntries == 1    \* add_transcript calls next to the other store calls (SpecState)
MaxEntries == 150       \* add_transcript calls on one store (SpecTranscript)
MaxBatch == 2       \* function calls in one tool-call batch
NumTasks == 3       \* tasks calling one StateManager concurrently (SpecConc)

(***************************************************************************)
(* StateManager                                                            *)
(***************************************************************************)
\* Optional[int]
None == [some |-> FALSE, val |-> 0]
Some(i) == [some |-> TRUE, val |-> i]

Directions == {"next", "prev", "jump", "up"}
IndexArgs == {None} \cup {Some(i) : i \in -2 .. MaxIndex}

\* StateManager.navigate with the clamp of "next" left out
NavigateNoClamp(cur, tot, direction, index) ==
    IF direction = "next" THEN [raised |-> FALSE, value |-> cur + 1]
    ELSE IF direction = "prev" THEN [raised |-> FALSE, value |-> Max(cur - 1, 0)]
    ELSE IF direction = "jump" THEN
        IF ~index.some THEN [raised |-> TRUE, value |-> cur]
        ELSE [raised |-> FALSE, value |-> Max(0, index.val)]
    ELSE [raised |-> TRUE, value |-> cur]

\* StateManager.navigate with the upper clamp of "jump" left out
NavigateJumpUnclamped(cur, tot, direction, index) ==
    IF direction = "next" THEN
        [raised |-> FALSE, value |-> IF tot > 0 THEN Min(cur + 1, tot - 1) ELSE cur + 1]
    ELSE IF direction = "prev" THEN [raised |-> FALSE, value |-> Max(cur - 1, 0)]
    ELSE IF direction = "jump" THEN
        IF ~index.some THEN [raised |-> TRUE, value |-> cur]
        ELSE [raised |-> FALSE, value |-> Max(0, index.val)]
    ELSE [raised |-> TRUE, value |-> cur]

\* StateManager.navigate with "next" clamped also when the total is unknown
NavigateNextAlwaysClamped(cur, tot, direction, index) ==
    IF direction = "next" THEN [raised |-> FALSE, value |-> Min(cur + 1, tot - 1)]
    ELSE IF direction = "prev" THEN [raised |-> FALSE, value |-> Max(cur - 1, 0)]
    ELSE IF direction = "jump" THEN
        IF ~index.some THEN [raised |-> TRUE, value |-> cur]
        ELSE LET new_index == Max(0, index.val)
             IN [raised |-> FALSE,
                 value |-> IF tot > 0 THEN Min(new_index, tot - 1) ELSE new_index]
    ELSE [raised |-> TRUE, value |-> cur]

\* StateManager.navigate: the new index, or the ValueError it raises
Navigate(cur, tot, direction, index) ==
    IF direction = "next" THEN
        IF tot > 0 THEN [raised |-> FALSE, value |-> Min(cur + 1, tot - 1)]
        ELSE [raised |-> FALSE, value |-> cur + 1]
    ELSE IF direction = "prev" THEN
        [raised |-> FALSE, value |-> Max(cur - 1, 0)]
    ELSE IF direction = "jump" THEN
        IF ~index.some THEN [raised |-> TRUE, value |-> cur]
        ELSE LET new_index == Max(0, index.val)
             IN [raised |-> FALSE,
                 value |-> IF tot > 0 THEN Min(new_index, tot - 1) ELSE new_index]
    ELSE [raised |-> TRUE, value |-> cur]

\* set_current_slide storing the index as given
SetCurrentSlideNoClamp(index) == index

\* StateManager.set_current_slide
SetCurrentSlide(index) == Max(0, index)

\* set_total_slides without the clamp
SetTotalSlidesNoClamp(total) == total

\* StateManager.set_total_slides
SetTotalSlides(total) == Max(0, total)

\* the transcript buffer after reset: cleared
ResetTranscript == <<>>

\* add_transcript without the cap
AddTranscriptNoCap(history, text) == Append(history, text)

\* StateManager.add_transcript: append, keep the most recent TranscriptCap
AddTranscript(history, text) ==
    LET h == Append(history, text)
    IN IF Len(h) > TranscriptCap
       THEN SubSeq(h, Len(h) - TranscriptCap + 1, Len(h))
       ELSE h

\* Python's None
PyNone == "None"

\* the session ids passed to set_session_id (strings)
SessionIds == {"session-1"}

\* the dict built with a session id in it and the start time left at zero
InitMetadataStale(now) == [started_at |-> 0, session_id |-> "session-1"]

\* the dict built by __init__ and by reset: started now, no session id
InitMetadata(now) == [started_at |-> now, session_id |-> PyNone]

\* StateManager.set_session_id: the key is assigned in the dict
SetSessionId(metadata, session_id) == [metadata EXCEPT !.session_id = session_id]

\* the line separator of get_transcript; the entries are positive numbers
Newline == 0

\* get_transcript joining without separators
GetTranscriptNoSeparator(history) == history

\* StateManager.get_transcript: "\n".join(transcript_history), a string
\* modelled as the sequence of its entries and separators
GetTranscript(history) ==
    IF history = <<>> THEN <<>>
    ELSE [i \in 1 .. 2 * Len(history) - 1 |->
            IF i % 2 = 1 THEN history[(i + 1) \div 2] ELSE Newline]

\* "async with self._lock": the lock can be taken when no call holds it
LockFree(locked) == ~locked

\* the lock kept when the body raises
LockAfterNoRelease(raised) == raised

\* "async with self._lock": the lock is released when the body returns and
\* when it raises
LockAfter(raised) == FALSE

SMCall(op, direction, index, raised, ret) ==
    [op |-> op, direction |-> direction, index |-> index,
     pre_current |-> current_slide, pre_total |-> total_slides,
     pre_entries |-> Len(transcript_history), pre_metadata |-> session_metadata,
     raised |-> raised, ret |-> ret]

SMLastInit(total) ==
    [op |-> "init", direction |-> "", index |-> None,
     pre_current |-> 0, pre_total |-> total,
     pre_entries |-> 0, pre_metadata |-> InitMetadata(0),
     raised |-> FALSE, ret |-> 0]

SMNavigate ==
    \E direction \in Directions, index \in IndexArgs :
        LET r == Navigate(current_slide, total_slides, direction, index) IN
        /\ LockFree(sm_locked)
        /\ r.raised \/ r.value <= MaxIndex + 1
        /\ current_slide' = IF r.raised THEN current_slide ELSE r.value
        /\ sm_locked' = LockAfter(r.raised)
        /\ sm_last' = SMCall("navigate", direction, index, r.raised, r.value)
        /\ sm_nexts' = IF sm_nexts >= 0 /\ direction = "next" /\ total_slides = 0
                       THEN sm_nexts + 1 ELSE -1
        /\ UNCHANGED <<total_slides, transcript_history, sm_init_total, sm_only_nav>>
        /\ UNCHANGED <<queueVars, sessionVars, auxVars>>

SMSetCurrentSlide ==
    \E index \in -2 .. MaxIndex :
        /\ LockFree(sm_locked)
        /\ current_slide' = SetCurrentSlide(index)
        /\ sm_locked' = LockAfter(FALSE)
        /\ sm_last' = SMCall("set_current_slide", "", Some(index), FALSE, 0)
        /\ sm_only_nav' = FALSE
        /\ sm_nexts' = -1
        /\ UNCHANGED <<total_slides, transcript_history, sm_init_total>>
        /\ UNCHANGED <<queueVars, sessionVars, auxVars>>

SMSetTotalSlides ==
    \E total \in -2 .. MaxTotal :
        /\ LockFree(sm_locked)
        /\ total_slides' = SetTotalSlides(total)
        /\ sm_locked' = LockAfter(FALSE)
        /\ sm_last' = SMCall("set_total_slides", "", Some(total), FALSE, 0)
        /\ sm_only_nav' = FALSE
        /\ sm_nexts' = -1
        /\ UNCHANGED <<current_slide, transcript_history, sm_init_total>>
        /\ UNCHANGED <<queueVars, sessionVars, auxVars>>

SMReset ==
    /\ LockFree(sm_locked)
    /\ current_slide' = 0
    /\ sm_locked' = LockAfter(FALSE)
    /\ sm_last' = SMCall("reset", "", None, FALSE, 0)
    /\ sm_only_nav' = FALSE
    /\ sm_nexts' = -1
    /\ transcript_history' = ResetTranscript
    /\ session_metadata' = InitMetadata(sm_clock)
    /\ UNCHANGED <<total_slides, sm_init_total, sm_clock>>
    /\ UNCHANGED <<queueVars, sessionVars, exceptMeta>>

\* StateManager.set_session_id
SMSetSessionId ==
    \E session_id \in SessionIds :
        /\ LockFree(sm_locked)
        /\ session_metadata' = SetSessionId(session_metadata, session_id)
        /\ sm_locked' = LockAfter(FALSE)
        /\ sm_last' = SMCall("set_session_id", "", None, FALSE, 0)
        /\ sm_only_nav' = FALSE
        /\ sm_nexts' = -1
        /\ UNCHANGED <<current_slide, total_slides, transcript_history, sm_init_total,
                       sm_clock>>
        /\ UNCHANGED <<queueVars, sessionVars, exceptMeta>>

\* time passes: datetime.now() gives a later reading
SMTick ==
    /\ sm_clock < MaxClock
    /\ sm_clock' = sm_clock + 1
    /\ UNCHANGED <<stateVars, session_metadata>>
    /\ UNCHANGED <<queueVars, sessionVars, exceptMeta>>

\* no get_transcript call made yet
TRReturnedInit == [called |-> FALSE, n |-> 0, text |-> <<>>]

\* add_transcript(text) with the text numbered by the call, at most limit calls
AddTranscriptCall(limit) ==
    /\ LockFree(sm_locked)
    /\ tr_count < limit
    /\ transcript_history' = AddTranscript(transcript_history, tr_count + 1)
    /\ tr_count' = tr_count + 1
    /\ sm_locked' = LockAfter(FALSE)
    /\ sm_last' = SMCall("add_transcript", "", None, FALSE, 0)
    /\ sm_only_nav' = FALSE
    /\ sm_nexts' = -1
    /\ UNCHANGED <<current_slide, total_slides, sm_init_total, tr_returned>>
    /\ UNCHANGED <<queueVars, sessionVars, exceptTranscript>>

SMAddTranscript == AddTranscriptCall(MaxStateEntries)

StateNext == SMNavigate \/ SMSetCurrentSlide \/ SMSetTotalSlides \/ SMReset

\* the calls that write the store, navigation aside (SpecStore)
StoreNext ==
    \/ SMSetCurrentSlide \/ SMSetTotalSlides \/ SMReset
    \/ SMAddTranscript \/ SMSetSessionId \/ SMTick

(***************************************************************************)
(* The transcript buffer alone (SpecTranscript): add_transcript and        *)
(* get_transcript on one store.                                            *)
(***************************************************************************)
TRAddTranscript == AddTranscriptCall(MaxEntries)

TRGetTranscript ==
    /\ LockFree(sm_locked)
    /\ tr_returned' = [called |-> TRUE, n |-> tr_count,
                       text |-> GetTranscript(transcript_history)]
    /\ UNCHANGED <<stateVars, tr_count>>
    /\ UNCHANGED <<queueVars, sessionVars, exceptTranscript>>

TranscriptNext == TRAddTranscript \/ TRGetTranscript

(***************************************************************************)
(* get_context and its callers (SpecContext): a reader task calling        *)
(* get_current_slide and get_context back to back, and a writer task, on   *)
(* one event loop.  A task runs until it suspends; the event loop then     *)
(* resumes any task that can go on.                                        *)
(***************************************************************************)
CtxTasks == {"reader", "writer"}

\* the store as get_context sees it
StoreView(cur, tot, metadata) ==
    [current_slide |-> cur, total_slides |-> tot, session_metadata |-> metadata]

\* no get_context call made yet
NoContext ==
    [called |-> FALSE, view |-> StoreView(0, 0, InitMetadata(0)), shared |-> FALSE,
     modified |-> FALSE, at |-> StoreView(0, 0, InitMetadata(0))]

\* get_context handing out the metadata dict of the store itself
GetContextNoCopy(cur, tot, metadata) ==
    [called |-> TRUE, view |-> StoreView(cur, tot, metadata), shared |-> TRUE,
     modified |-> FALSE, at |-> StoreView(cur, tot, metadata)]

\* StateManager.get_context: a new dict of the two numbers and of
\* session_metadata.copy(), a dict object of its own (shared = FALSE); "at"
\* is a ghost, the store at the time of the call
GetContext(cur, tot, metadata) ==
    [called |-> TRUE, view |-> StoreView(cur, tot, metadata), shared |-> FALSE,
     modified |-> FALSE, at |-> StoreView(cur, tot, metadata)]

\* what a write of the store does to a dict handed out earlier: nothing,
\* unless the metadata dict is shared with the store; then an assignment in
\* place shows in it, and a replaced store dict leaves it the old one
ContextAfterWrite(ctx, metadata, replaced) ==
    IF ~ctx.shared THEN ctx
    ELSE IF replaced THEN [ctx EXCEPT !.shared = FALSE]
    ELSE [ctx EXCEPT !.view.session_metadata = metadata]

\* asyncio.Lock.acquire yielding to the event loop on every call
AcquireAlwaysSuspends(locked) == TRUE

\* "async with self._lock": asyncio.Lock.acquire returns at once when the
\* lock is free and suspends the caller only while another call holds it
AcquireSuspends(locked) == locked

\* the calls of the writer task
CtxWrites ==
    {[op |-> "set_current_slide", arg |-> i] : i \in 0 .. MaxCtxSlide}
        \cup {[op |-> "set_session_id", arg |-> 0], [op |-> "reset", arg |-> 0]}

\* the store after the writer's call
WriteStore(w, cur, tot, metadata, now) ==
    IF w.op = "set_current_slide"
    THEN [view |-> StoreView(SetCurrentSlide(w.arg), tot, metadata), replaced |-> FALSE]
    ELSE IF w.op = "set_session_id"
    THEN [view |-> StoreView(cur, tot, SetSessionId(metadata, "session-1")),
          replaced |-> FALSE]
    ELSE [view |-> StoreView(0, tot, InitMetadata(now)), replaced |-> TRUE]

\* a call of the running task t: it suspends in acquire (and the event loop
\* takes over), or it is in the body
Suspending(t, pc) == ctx_pc[t] = pc /\ AcquireSuspends(sm_locked)
InBody(t, pc) == ctx_pc[t] = pc \o "_resumed" \/ (ctx_pc[t] = pc /\ ~AcquireSuspends(sm_locked))

CtxSuspend(t, pc) ==
    /\ ctx_pc' = [ctx_pc EXCEPT ![t] = pc \o "_wait"]
    /\ ctx_running' = "none"

\* where a task goes on when the event loop resumes it
ResumePc(t, pc, rounds) ==
    IF pc \in {"start", "sleep"}
    THEN IF rounds >= MaxRounds THEN "done"
         ELSE IF t = "reader" THEN "get_current" ELSE "write"
    ELSE IF pc = "get_current_wait" THEN "get_current_resumed"
    ELSE IF pc = "get_context_wait" THEN "get_context_resumed"
    ELSE "write_resumed"

\* the event loop resumes a task: one that slept, or one that waited for
\* the lock, which is free
CtxResume ==
    \E t \in CtxTasks :
        /\ ctx_running = "none"
        /\ ctx_pc[t] \in {"start", "sleep", "get_current_wait", "get_context_wait",
                          "write_wait"}
        /\ ctx_pc[t] \in {"start", "sleep"} \/ LockFree(sm_locked)
        /\ LET pc == ResumePc(t, ctx_pc[t], ctx_rounds[t]) IN
            /\ ctx_pc' = [ctx_pc EXCEPT ![t] = pc]
            /\ ctx_running' = IF pc = "done" THEN "none" ELSE t
            /\ ctx_rounds' = IF ctx_pc[t] \in {"start", "sleep"} /\ pc # "done"
                             THEN [ctx_rounds EXCEPT ![t] = @ + 1] ELSE ctx_rounds
        /\ UNCHANGED <<sm_context, ctx_current>>
        /\ UNCHANGED <<stateVars, queueVars, sessionVars, metaVars, exceptMetaCtx>>

\* reader: current = await manager.get_current_slide()
ReaderGetCurrent ==
    /\ ctx_running = "reader"
    /\ \/ /\ Suspending("reader", "get_current")
          /\ CtxSuspend("reader", "get_current")
          /\ UNCHANGED ctx_current
       \/ /\ InBody("reader", "get_current")
          /\ ctx_current' = current_slide
          /\ ctx_pc' = [ctx_pc EXCEPT !["reader"] = "get_context"]
          /\ UNCHANGED ctx_running
    /\ UNCHANGED <<sm_context, ctx_rounds>>
    /\ UNCHANGED <<stateVars, queueVars, sessionVars, metaVars, exceptMetaCtx>>

\* reader: context = await manager.get_context()
ReaderGetContext ==
    /\ ctx_running = "reader"
    /\ \/ /\ Suspending("reader", "get_context")
          /\ CtxSuspend("reader", "get_context")
          /\ UNCHANGED sm_context
       \/ /\ InBody("reader", "get_context")
          /\ sm_context' = GetContext(current_slide, total_slides, session_metadata)
          /\ ctx_pc' = [ctx_pc EXCEPT !["reader"] = "use"]
          /\ UNCHANGED ctx_running
    /\ UNCHANGED <<ctx_current, ctx_rounds>>
    /\ UNCHANGED <<stateVars, queueVars, sessionVars, metaVars, exceptMetaCtx>>

\* reader: the caller writes into the dict it got (an entry of the dict, or
\* an entry of its metadata dict), or leaves it alone; then sleep(0.001)
ReaderUse ==
    /\ ctx_running = "reader" /\ ctx_pc["reader"] = "use"
    /\ \E change \in {"none", "current_slide", "session_id"} :
        /\ sm_context' =
             IF change = "current_slide"
             THEN [sm_context EXCEPT !.view.current_slide = MaxCtxSlide + 1,
                                     !.modified = TRUE]
             ELSE IF change = "session_id"
             THEN [sm_context EXCEPT !.view.session_metadata.session_id = "edited",
                                     !.modified = TRUE]
             ELSE sm_context
        /\ session_metadata' =
             IF change = "session_id" /\ sm_context.shared
             THEN [session_metadata EXCEPT !.session_id = "edited"]
             ELSE session_metadata
    /\ ctx_pc' = [ctx_pc EXCEPT !["reader"] = "sleep"]
    /\ ctx_running' = "none"
    /\ UNCHANGED <<ctx_current, ctx_rounds, sm_clock>>
    /\ UNCHANGED <<stateVars, queueVars, sessionVars, exceptMetaCtx>>

\* writer: one call that writes the store, then sleep(0.001)
WriterWrite ==
    /\ ctx_running = "writer"
    /\ \/ /\ Suspending("writer", "write")
          /\ CtxSuspend("writer", "write")
          /\ UNCHANGED <<current_slide, total_slides, session_metadata, sm_context>>
       \/ /\ InBody("writer", "write")
          /\ \E w \in CtxWrites :
              LET r == WriteStore(w, current_slide, total_slides, session_metadata,
                                  sm_clock) IN
              /\ current_slide' = r.view.current_slide
              /\ total_slides' = r.view.total_slides
              /\ session_metadata' = r.view.session_metadata
              /\ sm_context' = ContextAfterWrite(sm_context, r.view.session_metadata,
                                                 r.replaced)
          /\ ctx_pc' = [ctx_pc EXCEPT !["writer"] = "sleep"]
          /\ ctx_running' = "none"
    /\ UNCHANGED <<ctx_current, ctx_rounds, sm_clock>>
    /\ UNCHANGED <<transcript_history, sm_locked, storeGhost>>
    /\ UNCHANGED <<queueVars, sessionVars, exceptMetaCtx>>

\* time passes while the tasks run
CtxTick ==
    /\ sm_clock < MaxClock
    /\ sm_clock' = sm_clock + 1
    /\ UNCHANGED <<stateVars, session_metadata, ctxVars>>
    /\ UNCHANGED <<queueVars, sessionVars, exceptMetaCtx>>

ContextNext ==
    CtxResume \/ ReaderGetCurrent \/ ReaderGetContext \/ ReaderUse \/ WriterWrite \/ CtxTick

(***************************************************************************)
(* One StateManager called from concurrent tasks (SpecConc).  Each task    *)
(* makes one call; a call takes the lock ("async with self._lock", where a *)
(* task waits while another holds it), runs its body and releases it.      *)
(***************************************************************************)
Tasks == 1 .. NumTasks

ConcOp(kind, direction, index) == [kind |-> kind, direction |-> direction, index |-> index]

\* the calls a task may make; the text a task appends is its own number
ConcOps ==
    {ConcOp("navigate", "next", None), ConcOp("navigate", "prev", None),
     ConcOp("navigate", "jump", None), ConcOp("navigate", "jump", Some(0)),
     ConcOp("navigate", "jump", Some(2)), ConcOp("add_transcript", "", None)}

\* the totals the shared store is created with
ConcTotals == {0, 3}

\* a task enters "async with self._lock"
ConcAcquire ==
    \E t \in Tasks :
        /\ task_pc[t] = "start"
        /\ LockFree(sm_locked)
        /\ sm_locked' = TRUE
        /\ task_pc' = [task_pc EXCEPT ![t] = "locked"]
        /\ UNCHANGED <<current_slide, total_slides, transcript_history, storeGhost, task_op>>
        /\ UNCHANGED <<queueVars, sessionVars, exceptConc>>

\* the body of navigate, and the release of the lock (also when it raises)
ConcNavigate ==
    \E t \in Tasks :
        /\ task_pc[t] = "locked" /\ task_op[t].kind = "navigate"
        /\ LET r == Navigate(current_slide, total_slides, task_op[t].direction,
                             task_op[t].index) IN
            /\ current_slide' = IF r.raised THEN current_slide ELSE r.value
            /\ sm_locked' = LockAfter(r.raised)
        /\ task_pc' = [task_pc EXCEPT ![t] = "done"]
        /\ UNCHANGED <<total_slides, transcript_history, storeGhost, task_op>>
        /\ UNCHANGED <<queueVars, sessionVars, exceptConc>>

\* the body of add_transcript, and the release of the lock
ConcAddTranscript ==
    \E t \in Tasks :
        /\ task_pc[t] = "locked" /\ task_op[t].kind = "add_transcript"
        /\ transcript_history' = AddTranscript(transcript_history, t)
        /\ sm_locked' = LockAfter(FALSE)
        /\ task_pc' = [task_pc EXCEPT ![t] = "done"]
        /\ UNCHANGED <<current_slide, total_slides, storeGhost, task_op>>
        /\ UNCHANGED <<queueVars, sessionVars, exceptConc>>

ConcNext == ConcAcquire \/ ConcNavigate \/ ConcAddTranscript

(***************************************************************************)
(* ToolExecutor (SpecExec): the registry and execute_tool.                 *)
(***************************************************************************)
ExecNames == {"navigate_slide", "error_tool"}
ExecIds == {"test_id_456", "test_id_789"}
ExecDeclarations == {"declaration_1", "declaration_2"}
\* keyword arguments of a call: the set of their names
ExecArgs == {{}, {"x"}, {"y"}}

Handler(is_async, outcome, value) ==
    [is_async |-> is_async, params |-> {"x"}, outcome |-> outcome, value |-> value]

\* async functions that return a value, return None or raise, and a plain
\* (non-async) function
Handlers ==
    {Handler(TRUE, "return", "executed"), Handler(TRUE, "return", PyNone),
     Handler(TRUE, "raise", "Intentional error"), Handler(FALSE, "return", "executed")}

\* ToolExecutor.has_tool
HasTool(tools, name) == name \in DOMAIN tools

\* dict assignment d[key] = value
DictSet(d, key, value) ==
    [k \in DOMAIN d \cup {key} |-> IF k = key THEN value ELSE d[k]]

\* register_tool without the duplicate check
RegisterToolOverwrite(tools, declarations, name, func, declaration) ==
    IF ~func.is_async
    THEN [raised |-> TRUE, tools |-> tools, declarations |-> declarations]
    ELSE [raised |-> FALSE, tools |-> DictSet(tools, name, func),
          declarations |-> DictSet(declarations, name, declaration)]

\* ToolExecutor.register_tool: the registry afterwards, or ValueError
RegisterTool(tools, declarations, name, func, declaration) ==
    IF HasTool(tools, name)
    THEN [raised |-> TRUE, tools |-> tools, declarations |-> declarations]
    ELSE IF ~func.is_async
    THEN [raised |-> TRUE, tools |-> tools, declarations |-> declarations]
    ELSE [raised |-> FALSE, tools |-> DictSet(tools, name, func),
          declarations |-> DictSet(declarations, name, declaration)]

FunctionResponse(id, name, response) == [id |-> id, name |-> name, response |-> response]

\* execute_tool, the name is not registered: a text is the sequence of its parts
UnknownToolResult(func_name, func_id) ==
    FunctionResponse(func_id, func_name,
        [status |-> "error", data |-> PyNone,
         error |-> <<"Unknown tool function requested: '", func_name,
                     "' is not registered.">>])

\* the handler-fault result with a fixed message
HandlerFaultResultGeneric(func_name, func_id, e) ==
    FunctionResponse(func_id, func_name,
        [status |-> "error", data |-> PyNone,
         error |-> <<"Error executing tool function '", func_name, "'">>])

\* execute_tool, "except Exception as e": str(ToolExecutorError(error_msg, e))
\* is error_msg
HandlerFaultResult(func_name, func_id, e) ==
    FunctionResponse(func_id, func_name,
        [status |-> "error", data |-> PyNone,
         error |-> <<"Error executing tool function '", func_name, "': ", e>>])

\* the success result with the return value turned into text
SuccessResultStringified(func_name, func_id, result) ==
    FunctionResponse(func_id, func_name,
        [status |-> "success", data |-> <<"str", result>>, error |-> PyNone])

\* execute_tool, the handler returned
SuccessResult(func_name, func_id, result) ==
    FunctionResponse(func_id, func_name,
        [status |-> "success", data |-> result, error |-> PyNone])

\* self._tools[func_name](**args): a keyword the function does not take is a
\* TypeError, otherwise the function returns or raises
CallHandler(func, args) ==
    IF ~(args \subseteq func.params)
    THEN [raised |-> TRUE, value |-> "got an unexpected keyword argument"]
    ELSE [raised |-> func.outcome = "raise", value |-> func.value]

\* a call that returned x
Returned(x) == [raised |-> FALSE, result |-> x]

\* execute_tool without the has_tool test: the lookup raises KeyError
ExecuteToolNoLookup(tools, func_name, func_id, args) ==
    IF ~HasTool(tools, func_name) THEN [raised |-> TRUE, result |-> PyNone]
    ELSE LET r == CallHandler(tools[func_name], args)
         IN IF r.raised THEN Returned(HandlerFaultResult(func_name, func_id, r.value))
            ELSE Returned(SuccessResult(func_name, func_id, r.value))

\* ToolExecutor.execute_tool: it returns a FunctionResponse in every case
ExecuteToolResult(tools, func_name, func_id, args) ==
    IF ~HasTool(tools, func_name) THEN Returned(UnknownToolResult(func_name, func_id))
    ELSE LET r == CallHandler(tools[func_name], args)
         IN IF r.raised THEN Returned(HandlerFaultResult(func_name, func_id, r.value))
            ELSE Returned(SuccessResult(func_name, func_id, r.value))

TECall(op, name, id, args, func, raised, result) ==
    [op |-> op, name |-> name, id |-> id, args |-> args, func |-> func,
     pre_tools |-> te_tools, pre_declarations |-> te_declarations,
     raised |-> raised, result |-> result]

TERegisterTool ==
    \E name \in ExecNames, func \in Handlers, declaration \in ExecDeclarations :
        LET r == RegisterTool(te_tools, te_declarations, name, func, declaration) IN
        /\ te_tools' = r.tools
        /\ te_declarations' = r.declarations
        /\ te_last' = TECall("register_tool", name, declaration, {}, func, r.raised, PyNone)
        /\ UNCHANGED <<stateVars, queueVars, sessionVars, exceptExec>>

TEExecuteTool ==
    \E name \in ExecNames, id \in ExecIds, args \in ExecArgs :
        /\ LET r == ExecuteToolResult(te_tools, name, id, args)
           IN te_last' = TECall("execute_tool", name, id, args, PyNone, r.raised, r.result)
        /\ UNCHANGED <<te_tools, te_declarations>>
        /\ UNCHANGED <<stateVars, queueVars, sessionVars, exceptExec>>

ExecNext == TERegisterTool \/ TEExecuteTool

(***************************************************************************)
(* WebSocketAudioProcessor                                                 *)
(***************************************************************************)
\* AudioProcessor.package_audio
PackageAudio(data) == [data |-> data, mime_type |-> "audio/pcm"]

\* asyncio.Queue.full() of the queue built in AudioProcessor.__init__
Full(q, maxsize) == maxsize > 0 /\ Len(q) >= maxsize

PushOutcome(q, count, ret, suspended) ==
    [queue |-> q, chunk_count |-> count, ret |-> ret, suspended |-> suspended]

\* push_audio without the eviction: a full queue parks the producer in put()
PushAudioNoEvict(q, running, count, maxsize, data) ==
    IF ~running THEN PushOutcome(q, count, FALSE, FALSE)
    ELSE IF Full(q, maxsize) THEN PushOutcome(q, count, FALSE, TRUE)
    ELSE PushOutcome(Append(q, PackageAudio(data)), count + 1, TRUE, FALSE)

\* push_audio dropping the incoming chunk instead of the oldest one
PushAudioDropNewest(q, running, count, maxsize, data) ==
    IF ~running THEN PushOutcome(q, count, FALSE, FALSE)
    ELSE IF Full(q, maxsize) THEN PushOutcome(q, count + 1, TRUE, FALSE)
    ELSE PushOutcome(Append(q, PackageAudio(data)), count + 1, TRUE, FALSE)

\* push_audio without the test of _is_running
PushAudioIgnoresRunning(q, running, count, maxsize, data) ==
    LET q1 == IF Full(q, maxsize) /\ q # <<>> THEN Tail(q) ELSE q
    IN PushOutcome(Append(q1, PackageAudio(data)), count + 1, TRUE, FALSE)

\* push_audio counting only the pushes that evicted nothing
PushAudioEvictUncounted(q, running, count, maxsize, data) ==
    IF ~running THEN PushOutcome(q, count, FALSE, FALSE)
    ELSE IF Full(q, maxsize) /\ q # <<>>
         THEN PushOutcome(Append(Tail(q), PackageAudio(data)), count, TRUE, FALSE)
         ELSE PushOutcome(Append(q, PackageAudio(data)), count + 1, TRUE, FALSE)

\* WebSocketAudioProcessor.push_audio: evict the oldest when full, then put()
PushAudio(q, running, count, maxsize, data) ==
    IF ~running THEN PushOutcome(q, count, FALSE, FALSE)
    ELSE LET audio_msg == PackageAudio(data)
             q1 == IF Full(q, maxsize) /\ q # <<>> THEN Tail(q) ELSE q
         IN IF Full(q1, maxsize)
            THEN PushOutcome(q1, count, FALSE, TRUE)      \* put() would wait
            ELSE PushOutcome(Append(q1, audio_msg), count + 1, TRUE, FALSE)

\* WebSocketAudioProcessor.push_audio_sync: put_nowait(), QueueFull gives False
PushAudioSync(q, running, count, maxsize, data) ==
    IF ~running THEN PushOutcome(q, count, FALSE, FALSE)
    ELSE LET audio_msg == PackageAudio(data)
             q1 == IF Full(q, maxsize) /\ q # <<>> THEN Tail(q) ELSE q
         IN IF Full(q1, maxsize)
            THEN PushOutcome(q1, count, FALSE, FALSE)     \* QueueFull caught
            ELSE PushOutcome(Append(q1, audio_msg), count + 1, TRUE, FALSE)

\* get_audio handing out the newest chunk
GetAudioNewest(q) == [msg |-> q[Len(q)], rest |-> SubSeq(q, 1, Len(q) - 1)]

\* AudioProcessor.get_audio on a queue that holds a chunk: asyncio.Queue.get()
GetAudio(q) == [msg |-> Head(q), rest |-> Tail(q)]

APCall(op, data, ret, suspended) ==
    [op |-> op, data |-> data, ret |-> ret, suspended |-> suspended,
     pre_running |-> is_running, pre_queue |-> audio_queue]

APLastInit ==
    [op |-> "init", data |-> 0, ret |-> FALSE, suspended |-> FALSE,
     pre_running |-> FALSE, pre_queue |-> <<>>]

Payloads(q) == {q[i].data : i \in 1 .. Len(q)}

\* WebSocketAudioProcessor.start
QStart ==
    /\ is_running' = TRUE
    /\ chunk_count' = IF is_running THEN chunk_count ELSE 0
    /\ ap_last' = APCall("start", 0, FALSE, FALSE)
    /\ push_base' = IF is_running THEN push_base ELSE Len(pushed)
    /\ pops' = IF is_running THEN pops ELSE 0
    /\ ap_torn_down' = FALSE
    /\ UNCHANGED <<queue_maxsize, audio_queue, pushed, evicted, cleared, next_data,
                   ap_getter>>
    /\ UNCHANGED <<stateVars, sessionVars, exceptConsumer>>

\* WebSocketAudioProcessor.stop and a consumer suspended in get_audio: stop
\* only clears the flag and empties the queue, the future of the consumer is
\* not touched
GetterAfterStop(getter) == getter

\* AudioProcessor.get_audio on an empty queue: asyncio.Queue.get() suspends
\* the caller, whether or not the processor runs
GetterOnEmpty(torn_down) == "waiting"

\* stop clearing the flag only
QStopKeepsQueue ==
    /\ is_running' = FALSE
    /\ ap_last' = APCall("stop", 0, FALSE, FALSE)
    /\ push_base' = Len(pushed)
    /\ pops' = 0
    /\ ap_getter' = GetterAfterStop(ap_getter)
    /\ ap_torn_down' = TRUE
    /\ UNCHANGED <<queue_maxsize, audio_queue, cleared, chunk_count, pushed, evicted,
                   next_data>>
    /\ UNCHANGED <<stateVars, sessionVars, exceptConsumer>>

\* WebSocketAudioProcessor.stop
QStop ==
    /\ is_running' = FALSE
    /\ audio_queue' = <<>>
    /\ ap_last' = APCall("stop", 0, FALSE, FALSE)
    /\ push_base' = Len(pushed)
    /\ pops' = 0
    /\ cleared' = cleared \cup Payloads(audio_queue)
    /\ ap_getter' = GetterAfterStop(ap_getter)
    /\ ap_torn_down' = TRUE
    /\ UNCHANGED <<queue_maxsize, chunk_count, pushed, evicted, next_data>>
    /\ UNCHANGED <<stateVars, sessionVars, exceptConsumer>>

QApplyPush(op, r) ==
    /\ next_data <= MaxPushes
    /\ audio_queue' = r.queue
    /\ chunk_count' = r.chunk_count
    /\ ap_last' = APCall(op, next_data, r.ret, r.suspended)
    /\ pushed' = IF r.ret THEN Append(pushed, PackageAudio(next_data)) ELSE pushed
    /\ evicted' = evicted \cup
                    ((Payloads(audio_queue) \cup (IF r.ret THEN {next_data} ELSE {}))
                     \ Payloads(r.queue))
    /\ next_data' = next_data + 1
    /\ UNCHANGED <<queue_maxsize, is_running, push_base, pops, cleared>>
    /\ UNCHANGED <<stateVars, sessionVars, auxVars>>

QPush ==
    QApplyPush("push_audio",
               PushAudio(audio_queue, is_running, chunk_count, queue_maxsize, next_data))

QPushSync ==
    QApplyPush("push_audio_sync",
               PushAudioSync(audio_queue, is_running, chunk_count, queue_maxsize, next_data))

\* AudioProcessor.get_audio on a queue that holds a chunk: the call of an
\* idle consumer returns at once, a suspended consumer is resumed with it
QPop ==
    /\ audio_queue # <<>>
    /\ ap_getter \in {"idle", "waiting"}
    /\ audio_queue' = GetAudio(audio_queue).rest
    /\ ap_last' = APCall("get_audio", GetAudio(audio_queue).msg.data, TRUE, FALSE)
    /\ pops' = pops + 1
    /\ ap_getter' = "idle"
    /\ UNCHANGED <<queue_maxsize, is_running, chunk_count, pushed, push_base,
                   evicted, cleared, next_data, ap_torn_down>>
    /\ UNCHANGED <<stateVars, sessionVars, exceptConsumer>>

\* AudioProcessor.get_audio of an idle consumer on an empty queue
QPopEmpty ==
    /\ audio_queue = <<>>
    /\ ap_getter = "idle"
    /\ ap_getter' = GetterOnEmpty(ap_torn_down)
    /\ ap_last' = APCall("get_audio", 0, FALSE, TRUE)
    /\ UNCHANGED <<queue_maxsize, audio_queue, is_running, chunk_count, pushed,
                   push_base, pops, evicted, cleared, next_data, ap_torn_down>>
    /\ UNCHANGED <<stateVars, sessionVars, exceptConsumer>>

QueueNext == QStart \/ QStop \/ QPush \/ QPushSync \/ QPop \/ QPopEmpty

(***************************************************************************)
(* The websocket session (main.py, websocket_endpoint).  A task runs        *)
(* without interruption between two awaits that really suspend; each pc     *)
(* names the await a task is suspended in.                                  *)
(***************************************************************************)
\* a function call of a tool-call batch: name and arguments
Call(name) == [name |-> name, direction |-> "", index |-> None]
NavCall(direction, index) ==
    [name |-> "navigate_slide", direction |-> direction, index |-> index]

\* the function calls the inference stream may issue (index is 1-based)
SessionCalls ==
    {NavCall("next", None), NavCall("jump", Some(2)), NavCall("jump", None),
     Call("trigger_summary"), Call("unknown_tool")}

\* the non-empty tool-call batches the inference stream may deliver
Batches == UNION {[1 .. n -> SessionCalls] : n \in 1 .. MaxBatch}

\* slide_info / slide_sync values the frontend may report
SessionTotals == {2}
SessionCurrents == {0, 1}

\* the values of the fields of a slide_info or slide_sync message, negative
\* ones included
ControlTotals == {-1, 0, 2}
ControlCurrents == {-1, 0, 1, 3}

\* receive_websocket_data: "while is_connected", then websocket.receive()
RxLoopHead(conn) == IF conn THEN "recv" ELSE "done"

\* forward_audio_to_gemini: "while is_connected", the wait on the gate (which
\* returns at once when the event is set), then the timed get_audio()
FwdLoopHead(conn, gate) ==
    IF ~conn THEN "done" ELSE IF gate THEN "pop" ELSE "gate"

\* handle_gemini_responses: "while is_connected", then the next response unit
RespLoopHead(conn) == IF conn THEN "recv" ELSE "done"

\* the gate set only when process_tool_calls returns normally
GateAfterToolCallsNoFinally(outcome) == outcome = "return"

\* process_tool_calls: "finally: allow_interruption.set()", whatever way the
\* handling ends ("return", "raise", "cancel")
GateAfterToolCalls(outcome) == TRUE

\* the response loop is inside process_tool_calls
InProcessToolCalls == resp_pc \in {"intent", "result", "respond"}

\* asyncio.create_task(run_background_summary(...)), n times
Spawn(s, n) == [s EXCEPT !.gen = @ + n]

CountSummaries(calls) ==
    Cardinality({i \in 1 .. Len(calls) : calls[i].name = "trigger_summary"})

\* navigate_slide_wrapper: the 1-based index of the model becomes 0-based
NavigateSlideWrapper(direction, index) ==
    IF direction = "jump" /\ index.some THEN Some(Max(0, index.val - 1)) ELSE index

\* execute_tool on one call: current_slide afterwards.  navigate_slide goes
\* through the wrapper and SlideTools.navigate_slide, which catches the
\* ValueError of navigate; the other tools leave the store alone.
ExecuteTool(call, cur, tot) ==
    IF call.name = "navigate_slide"
    THEN LET r == Navigate(cur, tot, call.direction,
                           NavigateSlideWrapper(call.direction, call.index))
         IN IF r.raised THEN cur ELSE r.value
    ELSE cur

RECURSIVE ExecuteAll(_, _, _)
ExecuteAll(calls, cur, tot) ==
    IF calls = <<>> THEN cur
    ELSE ExecuteAll(Tail(calls), ExecuteTool(Head(calls), cur, tot), tot)

\* process_tool_calls sends a result event for this call (for a call the
\* executor answers with data None, res_data.get raises and the except
\* clause logs it: nothing is sent)
HasResultEvent(call) == call.name \in {"navigate_slide", "trigger_summary"}

(* ---- the tools of a session, called through the executor ---- *)

\* str(e) of the ValueError of StateManager.navigate, a text as its parts
NavigateError(direction, index) ==
    IF direction = "jump" /\ ~index.some
    THEN <<"Index required for 'jump' navigation">>
    ELSE <<"Invalid direction: ", direction>>

\* navigate_slide letting the ValueError of navigate through
NavigateSlideRaises(cur, tot, direction, index) ==
    LET r == Navigate(cur, tot, direction, index) IN
    IF r.raised
    THEN [current_slide |-> cur, raised |-> TRUE, result |-> NavigateError(direction, index)]
    ELSE [current_slide |-> r.value, raised |-> FALSE,
          result |-> [action |-> "navigate", direction |-> direction,
                      current_slide |-> r.value, total_slides |-> tot, success |-> TRUE]]

\* SlideTools.navigate_slide: the store afterwards and the dict returned;
\* "except Exception" turns the ValueError of navigate into a result
NavigateSlide(cur, tot, direction, index) ==
    LET r == Navigate(cur, tot, direction, index) IN
    IF r.raised
    THEN [current_slide |-> cur, raised |-> FALSE,
          result |-> [action |-> "navigate", success |-> FALSE,
                      error |-> NavigateError(direction, index)]]
    ELSE [current_slide |-> r.value, raised |-> FALSE,
          result |-> [action |-> "navigate", direction |-> direction,
                      current_slide |-> r.value, total_slides |-> tot, success |-> TRUE]]

\* SlideTools.trigger_summary: the dict returned
TriggerSummary ==
    [action |-> "start_background_summary", conversational_context |-> "",
     success |-> TRUE, message |-> "Summary generation started in background."]

\* the tools create_session_components registers
SessionToolNames == {"navigate_slide", "trigger_summary"}

\* executor.execute_tool(name, id, args) of a session: the store afterwards
\* and the FunctionResponse
SessionExecute(call, id, cur, tot) ==
    IF call.name \notin SessionToolNames
    THEN [current_slide |-> cur, response |-> UnknownToolResult(call.name, id)]
    ELSE IF call.name = "trigger_summary"
    THEN [current_slide |-> cur, response |-> SuccessResult(call.name, id, TriggerSummary)]
    ELSE LET r == NavigateSlide(cur, tot, call.direction,
                                NavigateSlideWrapper(call.direction, call.index))
         IN [current_slide |-> r.current_slide,
             response |-> IF r.raised
                          THEN HandlerFaultResult(call.name, id, r.result)
                          ELSE SuccessResult(call.name, id, r.result)]

\* no slide_command event on its way
NoSlideCommand ==
    [sent |-> FALSE, action |-> "", slide_index |-> 0, status |-> "",
     store_slide |-> 0, rejected |-> FALSE]

\* process_tool_calls, the slide_command event of a navigate_slide call:
\* slide_index is res_data.get("current_slide", 0), status the status of the
\* executor; store_slide and rejected are ghosts, the store after the call
\* and whether navigate rejected it
SlideCommand(call, response, cur, rejected) ==
    LET res_data == response.response.data IN
    [sent |-> TRUE, action |-> call.direction,
     slide_index |-> IF "current_slide" \in DOMAIN res_data
                     THEN res_data.current_slide ELSE 0,
     status |-> response.response.status,
     store_slide |-> cur, rejected |-> rejected]

\* the function calls made of the executor (index is 1-based)
ToolCalls ==
    {NavCall(d, i) : d \in Directions, i \in {None} \cup {Some(k) : k \in 0 .. MaxToolIndex}}
        \cup {Call("trigger_summary"), Call("unknown_tool")}

\* no execute_tool call made yet
NoToolCall ==
    [called |-> FALSE, call |-> Call(""), id |-> "", pre_current |-> 0,
     pre_rejected |-> FALSE, response |-> FunctionResponse("", "", PyNone)]

\* the call is a navigation that navigate rejects
RejectedNavigation(call) ==
    /\ call.name = "navigate_slide"
    /\ Navigate(0, 0, call.direction, NavigateSlideWrapper(call.direction, call.index)).raised

\* process_tool_calls on one function call of a connected session:
\* executor.execute_tool on the tools and the store of the session, then the
\* slide_command event when the call is a navigate_slide (a result of status
\* error has data None: res_data.get raises, the except clause logs it and
\* no event is sent)
ToolsExecute ==
    \E call \in ToolCalls, id \in ExecIds :
        LET r == SessionExecute(call, id, current_slide, total_slides) IN
        /\ r.current_slide <= MaxToolIndex
        /\ current_slide' = r.current_slide
        /\ tool_last' = [called |-> TRUE, call |-> call, id |-> id,
                         pre_current |-> current_slide,
                         pre_rejected |-> tool_last.called /\ RejectedNavigation(tool_last.call),
                         response |-> r.response]
        /\ slide_command' = IF call.name = "navigate_slide"
                                 /\ r.response.response.status = "success"
                            THEN SlideCommand(call, r.response, r.current_slide,
                                              RejectedNavigation(call))
                            ELSE NoSlideCommand
        /\ UNCHANGED <<total_slides, transcript_history, sm_locked, storeGhost>>
        /\ UNCHANGED <<queueVars, sessionVars, exceptTool>>

ToolsNext == ToolsExecute

ToolState(pc, batch, responses, sums, cur) ==
    [pc |-> pc, batch |-> batch, responses |-> responses, sums |-> sums, slide |-> cur]

\* process_tool_calls after the current call (Head(batch)) is finished: the
\* next await that suspends.  Not connected, safe_send_json returns at once,
\* so the rest of the batch runs through to send_tool_response.
AfterCall(conn, batch, responses, sums, cur, tot) ==
    LET rest == Tail(batch) IN
    IF rest = <<>> THEN ToolState("respond", <<>>, responses, sums, cur)
    ELSE IF conn THEN ToolState("intent", rest, responses, sums, cur)
    ELSE ToolState("respond", <<>>, responses \o rest,
                   Spawn(sums, CountSummaries(rest)), ExecuteAll(rest, cur, tot))

\* process_tool_calls keeping only the results of the tools it knows
AfterIntentDropsUnknown(conn, batch, responses, sums, cur, tot) ==
    LET call == Head(batch)
        responses1 == IF call.name = "unknown_tool" THEN responses
                      ELSE Append(responses, call)
        sums1 == IF call.name = "trigger_summary" THEN Spawn(sums, 1) ELSE sums
        cur1 == ExecuteTool(call, cur, tot)
    IN IF conn /\ HasResultEvent(call)
       THEN ToolState("result", batch, responses1, sums1, cur1)
       ELSE AfterCall(conn, batch, responses1, sums1, cur1, tot)

\* process_tool_calls once the intent_detected event of Head(batch) is out:
\* execute_tool, append the result, start the summary task, send the result
AfterIntent(conn, batch, responses, sums, cur, tot) ==
    LET call == Head(batch)
        responses1 == Append(responses, call)
        sums1 == IF call.name = "trigger_summary" THEN Spawn(sums, 1) ELSE sums
        cur1 == ExecuteTool(call, cur, tot)
    IN IF conn /\ HasResultEvent(call)
       THEN ToolState("result", batch, responses1, sums1, cur1)
       ELSE AfterCall(conn, batch, responses1, sums1, cur1, tot)

\* nothing sent to the client yet
NoClientEvents == [connected |-> FALSE]

\* websocket_endpoint up to the TaskGroup: connect succeeded, the status event
\* was sent (ok) or failed, the three tasks ran to their first await
ConnectOK ==
    /\ phase = "CONNECTING"
    /\ \E ok \in BOOLEAN :
        /\ is_connected' = ok
        /\ rx_pc' = RxLoopHead(ok)
        /\ fwd_pc' = FwdLoopHead(ok, allow_interruption)
        /\ resp_pc' = RespLoopHead(ok)
    /\ phase' = "ACTIVE"
    /\ client_events' = [client_events EXCEPT !.connected = TRUE]
    /\ UNCHANGED <<allow_interruption, tool_batch, function_responses, resp_text,
                   summaries, sent, n_sum, n_texts>>
    /\ UNCHANGED <<stateVars, queueVars, exceptEvents>>

\* the finally block: is_connected = False, audio_processor.stop(), then the
\* await of websocket.close()
TeardownEffects ==
    /\ is_connected' = FALSE
    /\ is_running' = FALSE
    /\ audio_queue' = <<>>
    /\ cleared' = cleared \cup Payloads(audio_queue)
    /\ phase' = "CLOSING"
    /\ UNCHANGED <<queue_maxsize, chunk_count, pushed, evicted, next_data,
                   ap_last, push_base, pops>>
    /\ UNCHANGED <<stateVars, auxVars>>

\* a failed handshake after which the TaskGroup is entered all the same
ConnectFailRunsLoops ==
    /\ phase = "CONNECTING"
    /\ phase' = "ACTIVE"
    /\ rx_pc' = RxLoopHead(is_connected)
    /\ fwd_pc' = FwdLoopHead(is_connected, allow_interruption)
    /\ resp_pc' = RespLoopHead(is_connected)
    /\ UNCHANGED <<is_connected, allow_interruption, tool_batch, function_responses,
                   resp_text, summaries, sent, n_sum, n_texts>>
    /\ UNCHANGED <<stateVars, queueVars, auxVars>>

\* client.aio.live.connect raises: no task is started
ConnectFail ==
    /\ phase = "CONNECTING"
    /\ TeardownEffects
    /\ UNCHANGED <<allow_interruption, rx_pc, fwd_pc, resp_pc, tool_batch,
                   function_responses, resp_text, summaries, sent, n_sum, n_texts>>

\* the finally block run while tasks of the TaskGroup are still going
TeardownWithoutJoin ==
    /\ phase = "ACTIVE"
    /\ TeardownEffects
    /\ UNCHANGED <<allow_interruption, rx_pc, fwd_pc, resp_pc, tool_batch,
                   function_responses, resp_text, summaries, sent, n_sum, n_texts>>

\* the TaskGroup is left once all three tasks are done
Teardown ==
    /\ phase = "ACTIVE"
    /\ rx_pc = "done" /\ fwd_pc = "done" /\ resp_pc = "done"
    /\ TeardownEffects
    /\ UNCHANGED <<allow_interruption, rx_pc, fwd_pc, resp_pc, tool_batch,
                   function_responses, resp_text, summaries, sent, n_sum, n_texts>>

\* websocket.close() returns or raises (suppressed)
CloseDone ==
    /\ phase = "CLOSING"
    /\ phase' = "CLOSED"
    /\ UNCHANGED <<is_connected, allow_interruption, rx_pc, fwd_pc, resp_pc,
                   tool_batch, function_responses, resp_text, summaries, sent,
                   n_sum, n_texts>>
    /\ UNCHANGED <<stateVars, queueVars, auxVars>>

\* the endpoint task is cancelled while it waits in the TaskGroup: the three
\* tasks get CancelledError at their await
Shutdown ==
    /\ phase = "ACTIVE"
    /\ ~(rx_pc = "done" /\ fwd_pc = "done" /\ resp_pc = "done")
    /\ rx_pc' = "done"
    /\ fwd_pc' = "done"
    /\ resp_pc' = "done"
    /\ allow_interruption' = IF InProcessToolCalls THEN GateAfterToolCalls("cancel")
                             ELSE allow_interruption
    /\ is_connected' = IF resp_pc # "done" THEN FALSE ELSE is_connected
    /\ tool_batch' = <<>>
    /\ function_responses' = <<>>
    /\ resp_text' = FALSE
    /\ UNCHANGED <<phase, summaries, sent, n_sum, n_texts>>
    /\ UNCHANGED <<stateVars, queueVars, auxVars>>

(* ---- receive loop ---- *)

\* a binary frame: audio_processor.push_audio(message["bytes"])
RxBinary ==
    /\ phase = "ACTIVE" /\ rx_pc = "recv"
    /\ next_data <= MaxChunks
    /\ LET r == PushAudio(audio_queue, is_running, chunk_count, queue_maxsize, next_data) IN
        /\ audio_queue' = r.queue
        /\ chunk_count' = r.chunk_count
        /\ pushed' = IF r.ret THEN Append(pushed, PackageAudio(next_data)) ELSE pushed
        /\ evicted' = evicted \cup
                        ((Payloads(audio_queue) \cup (IF r.ret THEN {next_data} ELSE {}))
                         \ Payloads(r.queue))
        /\ rx_pc' = IF r.suspended THEN "put" ELSE RxLoopHead(is_connected)
    /\ next_data' = next_data + 1
    /\ UNCHANGED <<queue_maxsize, is_running, push_base, pops, cleared, ap_last>>
    /\ UNCHANGED <<phase, is_connected, allow_interruption, fwd_pc, resp_pc, tool_batch,
                   function_responses, resp_text, summaries, sent, n_sum, n_texts>>
    /\ UNCHANGED <<stateVars, auxVars>>

\* a slide_info text frame: set_total_slides, then set_current_slide
RxSlideInfoOf(total, current) ==
    /\ phase = "ACTIVE" /\ rx_pc = "recv"
    /\ total_slides' = SetTotalSlides(total)
    /\ current_slide' = SetCurrentSlide(current)
    /\ rx_pc' = RxLoopHead(is_connected)
    /\ UNCHANGED <<phase, is_connected, allow_interruption, fwd_pc, resp_pc, tool_batch,
                   function_responses, resp_text, summaries, sent, n_sum, n_texts>>
    /\ UNCHANGED <<transcript_history, sm_locked, storeGhost, queueVars, auxVars>>

RxSlideInfo ==
    \E total \in SessionTotals, current \in SessionCurrents : RxSlideInfoOf(total, current)

\* a slide_sync handled as a slide_info without a total
RxSlideSyncAlsoTotal(current) ==
    /\ phase = "ACTIVE" /\ rx_pc = "recv"
    /\ current_slide' = SetCurrentSlide(current)
    /\ total_slides' = SetTotalSlides(0)
    /\ rx_pc' = RxLoopHead(is_connected)
    /\ UNCHANGED <<phase, is_connected, allow_interruption, fwd_pc, resp_pc, tool_batch,
                   function_responses, resp_text, summaries, sent, n_sum, n_texts>>
    /\ UNCHANGED <<transcript_history, sm_locked, storeGhost, queueVars, auxVars>>

\* a slide_sync text frame: set_current_slide
RxSlideSyncOf(current) ==
    /\ phase = "ACTIVE" /\ rx_pc = "recv"
    /\ current_slide' = SetCurrentSlide(current)
    /\ rx_pc' = RxLoopHead(is_connected)
    /\ UNCHANGED <<phase, is_connected, allow_interruption, fwd_pc, resp_pc, tool_batch,
                   function_responses, resp_text, summaries, sent, n_sum, n_texts>>
    /\ UNCHANGED <<total_slides, transcript_history, sm_locked, storeGhost, queueVars, auxVars>>

RxSlideSync == \E current \in SessionCurrents : RxSlideSyncOf(current)

RxSlideInfoAny ==
    \E total \in ControlTotals, current \in ControlCurrents : RxSlideInfoOf(total, current)

RxSlideSyncAny == \E current \in ControlCurrents : RxSlideSyncOf(current)

\* text frames that are not one of the three well-formed messages
MalformedFrames ==
    {"invalid_json", "non_object", "no_type", "unknown_type",
     "slide_info_no_fields", "slide_info_bad_total", "slide_info_bad_current",
     "slide_sync_no_field", "slide_sync_bad_current"}

\* json.loads and handle_frontend_message on such a frame: the store
\* afterwards, and whether an exception other than JSONDecodeError leaves the
\* loop.  Invalid JSON is caught; a JSON value that is not an object has no
\* .get (AttributeError); a missing or unknown type is logged; a missing field
\* is read as 0; a value that is not a number makes max(0, value) raise
\* TypeError (after set_total_slides when it is current_slide of slide_info).
HandleMalformed(kind, total, cur, tot) ==
    CASE kind \in {"invalid_json", "no_type", "unknown_type"} ->
            [fatal |-> FALSE, current |-> cur, total |-> tot]
      [] kind \in {"non_object", "slide_info_bad_total", "slide_sync_bad_current"} ->
            [fatal |-> TRUE, current |-> cur, total |-> tot]
      [] kind = "slide_info_no_fields" ->
            [fatal |-> FALSE, current |-> SetCurrentSlide(0), total |-> SetTotalSlides(0)]
      [] kind = "slide_info_bad_current" ->
            [fatal |-> TRUE, current |-> cur, total |-> SetTotalSlides(total)]
      [] kind = "slide_sync_no_field" ->
            [fatal |-> FALSE, current |-> SetCurrentSlide(0), total |-> tot]

\* a malformed text frame of the given kind
RxMalformedOf(kind) ==
    /\ phase = "ACTIVE" /\ rx_pc = "recv"
    /\ \E total \in SessionTotals :
        LET r == HandleMalformed(kind, total, current_slide, total_slides) IN
        /\ current_slide' = r.current
        /\ total_slides' = r.total
        /\ is_connected' = IF r.fatal THEN FALSE ELSE is_connected
        /\ rx_pc' = IF r.fatal THEN "done" ELSE RxLoopHead(is_connected)
    /\ UNCHANGED <<phase, allow_interruption, fwd_pc, resp_pc, tool_batch,
                   function_responses, resp_text, summaries, sent, n_sum, n_texts>>
    /\ UNCHANGED <<transcript_history, sm_locked, storeGhost, queueVars, auxVars>>

RxMalformed == \E kind \in MalformedFrames : RxMalformedOf(kind)

\* a request_summary text frame: the status event, then create_task
RxRequestSummary ==
    /\ phase = "ACTIVE" /\ rx_pc = "recv"
    /\ n_sum < MaxSummaries
    /\ n_sum' = n_sum + 1
    /\ IF is_connected
       THEN rx_pc' = "status" /\ UNCHANGED summaries
       ELSE rx_pc' = RxLoopHead(is_connected) /\ summaries' = Spawn(summaries, 1)
    /\ UNCHANGED <<phase, is_connected, allow_interruption, fwd_pc, resp_pc, tool_batch,
                   function_responses, resp_text, sent, n_texts>>
    /\ UNCHANGED <<stateVars, queueVars, auxVars>>

\* safe_send_json of the status event returns (ok) or fails
RxStatusSent ==
    /\ phase = "ACTIVE" /\ rx_pc = "status"
    /\ \E ok \in BOOLEAN :
        /\ is_connected' = (is_connected /\ ok)
        /\ rx_pc' = RxLoopHead(is_connected /\ ok)
    /\ summaries' = Spawn(summaries, 1)
    /\ UNCHANGED <<phase, allow_interruption, fwd_pc, resp_pc, tool_batch,
                   function_responses, resp_text, sent, n_sum, n_texts>>
    /\ UNCHANGED <<stateVars, queueVars, auxVars>>

\* websocket.receive() raises (WebSocketDisconnect, RuntimeError, other)
RxDisconnect ==
    /\ phase = "ACTIVE" /\ rx_pc = "recv"
    /\ is_connected' = FALSE
    /\ rx_pc' = "done"
    /\ UNCHANGED <<phase, allow_interruption, fwd_pc, resp_pc, tool_batch,
                   function_responses, resp_text, summaries, sent, n_sum, n_texts>>
    /\ UNCHANGED <<stateVars, queueVars, auxVars>>

(* ---- forward loop ---- *)

\* allow_interruption.wait() returns after the gate was set
FwdGateOpened ==
    /\ phase = "ACTIVE" /\ fwd_pc = "gate"
    /\ allow_interruption
    /\ fwd_pc' = "pop"
    /\ UNCHANGED <<phase, is_connected, allow_interruption, rx_pc, resp_pc, tool_batch,
                   function_responses, resp_text, summaries, sent, n_sum, n_texts>>
    /\ UNCHANGED <<stateVars, queueVars, auxVars>>

\* get_audio() returns the head; session.send_realtime_input(audio=...) starts
FwdPop ==
    /\ phase = "ACTIVE" /\ fwd_pc = "pop"
    /\ audio_queue # <<>>
    /\ audio_queue' = GetAudio(audio_queue).rest
    /\ sent' = Append(sent, GetAudio(audio_queue).msg)
    /\ fwd_pc' = "send"
    /\ UNCHANGED <<queue_maxsize, is_running, chunk_count, pushed, push_base,
                   evicted, cleared, next_data, ap_last, pops>>
    /\ UNCHANGED <<phase, is_connected, allow_interruption, rx_pc, resp_pc, tool_batch,
                   function_responses, resp_text, summaries, n_sum, n_texts>>
    /\ UNCHANGED <<stateVars, auxVars>>

\* the timeout of wait_for taken as any other exception of the loop
FwdTimeoutEndsLoop ==
    /\ phase = "ACTIVE" /\ fwd_pc = "pop"
    /\ audio_queue = <<>>
    /\ is_connected' = FALSE
    /\ fwd_pc' = "done"
    /\ UNCHANGED <<phase, allow_interruption, rx_pc, resp_pc, tool_batch,
                   function_responses, resp_text, summaries, sent, n_sum, n_texts>>
    /\ UNCHANGED <<stateVars, queueVars, auxVars>>

\* wait_for times out on the empty queue: "continue"
FwdTimeout ==
    /\ phase = "ACTIVE" /\ fwd_pc = "pop"
    /\ audio_queue = <<>>
    /\ fwd_pc' = FwdLoopHead(is_connected, allow_interruption)
    /\ UNCHANGED <<phase, is_connected, allow_interruption, rx_pc, resp_pc, tool_batch,
                   function_responses, resp_text, summaries, sent, n_sum, n_texts>>
    /\ UNCHANGED <<stateVars, queueVars, auxVars>>

\* send_realtime_input returns
FwdSendDone ==
    /\ phase = "ACTIVE" /\ fwd_pc = "send"
    /\ fwd_pc' = FwdLoopHead(is_connected, allow_interruption)
    /\ UNCHANGED <<phase, is_connected, allow_interruption, rx_pc, resp_pc, tool_batch,
                   function_responses, resp_text, summaries, sent, n_sum, n_texts>>
    /\ UNCHANGED <<stateVars, queueVars, auxVars>>

\* the exception of a failed send, by the test of the except clause
\* ("1011", "closed" or "1008" in its text, or none of them)
SendErrors == {"closed", "other"}

\* forward loop, "except Exception as e": the two classes differ in the log
\* line only, is_connected = False follows both and the loop is left
FwdAfterSendError(err) == [connected |-> FALSE, pc |-> "done"]

\* send_realtime_input raises err: the outer except ends the loop
FwdSendFailWith(err) ==
    /\ phase = "ACTIVE" /\ fwd_pc = "send"
    /\ is_connected' = FwdAfterSendError(err).connected
    /\ fwd_pc' = FwdAfterSendError(err).pc
    /\ UNCHANGED <<phase, allow_interruption, rx_pc, resp_pc, tool_batch,
                   function_responses, resp_text, summaries, sent, n_sum, n_texts>>
    /\ UNCHANGED <<stateVars, queueVars, auxVars>>

FwdSendFail == \E err \in SendErrors : FwdSendFailWith(err)

(* ---- response loop ---- *)

RespFrame == UNCHANGED <<phase, rx_pc, fwd_pc, sent, n_sum, n_texts>>

\* the turn yields a response unit: a tool-call batch (or none) and
\* transcript text (or none)
RespUnit ==
    /\ phase = "ACTIVE" /\ resp_pc = "recv"
    /\ \E batch \in Batches \cup {<<>>}, text \in BOOLEAN :
        /\ n_sum + CountSummaries(batch) <= MaxSummaries
        /\ text => n_texts < MaxTexts
        /\ n_sum' = n_sum + CountSummaries(batch)
        /\ n_texts' = IF text THEN n_texts + 1 ELSE n_texts
        /\ IF ~is_connected
           THEN \* "if not is_connected: break", then the while test fails
                /\ resp_pc' = "done"
                /\ UNCHANGED <<allow_interruption, tool_batch, function_responses,
                               resp_text, transcript_history>>
           ELSE IF batch # <<>>
           THEN \* process_tool_calls: the gate is closed, the first intent is sent
                /\ allow_interruption' = FALSE
                /\ tool_batch' = batch
                /\ function_responses' = <<>>
                /\ resp_text' = text
                /\ resp_pc' = "intent"
                /\ UNCHANGED transcript_history
           ELSE \* no tool call: the text is buffered, then sent to the client
                /\ resp_pc' = IF text THEN "text" ELSE "recv"
                /\ transcript_history' =
                        IF text THEN AddTranscript(transcript_history, n_texts + 1)
                        ELSE transcript_history
                /\ UNCHANGED <<allow_interruption, tool_batch, function_responses, resp_text>>
    /\ UNCHANGED <<is_connected, summaries>>
    /\ UNCHANGED <<phase, rx_pc, fwd_pc, sent>>
    /\ UNCHANGED <<current_slide, total_slides, sm_locked, storeGhost, queueVars, auxVars>>

\* the turn is exhausted: back to the while test
RespTurnEnd ==
    /\ phase = "ACTIVE" /\ resp_pc = "recv"
    /\ resp_pc' = RespLoopHead(is_connected)
    /\ UNCHANGED <<is_connected, allow_interruption, tool_batch, function_responses,
                   resp_text, summaries>>
    /\ RespFrame
    /\ UNCHANGED <<stateVars, queueVars, auxVars>>

\* the exception of the response loop, by the test of its except clause
\* ("1011", "closed" or "1008" in its text, or none of them)
StreamErrors == {"closed", "other"}

\* the response loop ending on every error
RespAfterErrorAlwaysEnds(err, conn) == [connected |-> FALSE, pc |-> "done"]

\* handle_gemini_responses, "except Exception as e": a closed connection
\* breaks out of the loop (the finally clears the flag), anything else is
\* logged and followed by sleep(0.1)
RespAfterError(err, conn) ==
    IF err = "closed" THEN [connected |-> FALSE, pc |-> "done"]
    ELSE [connected |-> conn, pc |-> "sleep"]

\* receiving raises err
RespErrorWith(err) ==
    /\ phase = "ACTIVE" /\ resp_pc = "recv"
    /\ resp_pc' = RespAfterError(err, is_connected).pc
    /\ is_connected' = RespAfterError(err, is_connected).connected
    /\ UNCHANGED <<allow_interruption, tool_batch, function_responses, resp_text, summaries>>
    /\ RespFrame
    /\ UNCHANGED <<stateVars, queueVars, auxVars>>

RespError == \E err \in StreamErrors : RespErrorWith(err)

\* sleep(0.1) is over: back to the while test
RespSleepDone ==
    /\ phase = "ACTIVE" /\ resp_pc = "sleep"
    /\ resp_pc' = RespLoopHead(is_connected)
    /\ is_connected' = is_connected
    /\ UNCHANGED <<allow_interruption, tool_batch, function_responses, resp_text,
                   summaries>>
    /\ RespFrame
    /\ UNCHANGED <<stateVars, queueVars, auxVars>>

ToolStep(conn, next) ==
    /\ is_connected' = conn
    /\ resp_pc' = next.pc
    /\ tool_batch' = next.batch
    /\ function_responses' = next.responses
    /\ summaries' = next.sums
    /\ next.slide <= MaxSessionSlide
    /\ current_slide' = next.slide
    /\ UNCHANGED <<allow_interruption, resp_text>>
    /\ RespFrame
    /\ UNCHANGED <<total_slides, transcript_history, sm_locked, storeGhost, queueVars, auxVars>>

\* safe_send_json of intent_detected returns (ok) or fails; the tool runs
ToolIntentSent ==
    /\ phase = "ACTIVE" /\ resp_pc = "intent"
    /\ \E ok \in BOOLEAN :
        ToolStep(is_connected /\ ok,
                 AfterIntent(is_connected /\ ok, tool_batch, function_responses, summaries,
                             current_slide, total_slides))

\* safe_send_json of the result event returns (ok) or fails
ToolResultSent ==
    /\ phase = "ACTIVE" /\ resp_pc = "result"
    /\ \E ok \in BOOLEAN :
        ToolStep(is_connected /\ ok,
                 AfterCall(is_connected /\ ok, tool_batch, function_responses, summaries,
                           current_slide, total_slides))

\* send_tool_response returns: finally, then the text of the same unit
ToolRespondDone ==
    /\ phase = "ACTIVE" /\ resp_pc = "respond"
    /\ allow_interruption' = GateAfterToolCalls("return")
    /\ resp_pc' = IF resp_text /\ is_connected THEN "text" ELSE "recv"
    /\ transcript_history' = IF resp_text
                              THEN AddTranscript(transcript_history, n_texts)
                              ELSE transcript_history
    /\ resp_text' = FALSE
    /\ tool_batch' = <<>>
    /\ function_responses' = <<>>
    /\ UNCHANGED <<is_connected, summaries>>
    /\ RespFrame
    /\ UNCHANGED <<current_slide, total_slides, sm_locked, storeGhost, queueVars, auxVars>>

\* send_tool_response raises: finally, then the except clause of the loop
ToolRespondFailWith(err) ==
    /\ phase = "ACTIVE" /\ resp_pc = "respond"
    /\ allow_interruption' = GateAfterToolCalls("raise")
    /\ resp_pc' = RespAfterError(err, is_connected).pc
    /\ is_connected' = RespAfterError(err, is_connected).connected
    /\ resp_text' = FALSE
    /\ tool_batch' = <<>>
    /\ function_responses' = <<>>
    /\ UNCHANGED <<summaries>>
    /\ RespFrame
    /\ UNCHANGED <<stateVars, queueVars, auxVars>>

ToolRespondFail == \E err \in StreamErrors : ToolRespondFailWith(err)

\* safe_send_json of the transcript event returns (ok) or fails
TextSent ==
    /\ phase = "ACTIVE" /\ resp_pc = "text"
    /\ \E ok \in BOOLEAN :
        /\ is_connected' = (is_connected /\ ok)
        /\ transcript_events' = IF ok THEN Append(transcript_events, n_texts)
                                 ELSE transcript_events
    /\ resp_pc' = "recv"
    /\ UNCHANGED <<allow_interruption, tool_batch, function_responses, resp_text,
                   summaries>>
    /\ RespFrame
    /\ UNCHANGED <<stateVars, queueVars, exceptRelay>>

(* ---- background summary tasks ---- *)

\* the summary task sending with websocket.send_json, not safe_send_json
SummaryGeneratedUnguarded ==
    /\ summaries.gen > 0
    /\ \E ok \in BOOLEAN :
        summaries' = IF ok
                     THEN [gen |-> summaries.gen - 1, send |-> summaries.send + 1]
                     ELSE [summaries EXCEPT !.gen = @ - 1]
    /\ UNCHANGED <<phase, is_connected, allow_interruption, rx_pc, fwd_pc, resp_pc,
                   tool_batch, function_responses, resp_text, sent, n_sum, n_texts>>
    /\ UNCHANGED <<stateVars, queueVars, auxVars>>

\* what generate_presentation_summary may return, a text as its words: no
\* text, the text of its except clause ("Error: " and the exception), its
\* text for an empty answer of the model, and summaries of the model
SummaryTexts ==
    {<<>>, <<"Error:", "quota", "exceeded">>, <<"Could", "not", "generate", "summary.">>,
     <<"Key", "points", "of", "the", "talk">>, <<"Error", "handling", "in", "pipelines">>}

\* "Error" in summary_text: the substring test, on the words of the text
ContainsError(text) == \E i \in 1 .. Len(text) : text[i] \in {"Error", "Error:"}

\* run_background_summary: 'if not summary_text or "Error" in summary_text'
SummaryDiscarded(text) == text = <<>> \/ ContainsError(text)

\* generate_presentation_summary returns text: a text that is not discarded
\* is formatted by inject_summary (which succeeds on any text) and handed to
\* safe_send_json, which sends when the client is connected
SummaryGeneratedWith(text) ==
    /\ summaries.gen > 0
    /\ summaries' = IF ~SummaryDiscarded(text) /\ is_connected
                    THEN [gen |-> summaries.gen - 1, send |-> summaries.send + 1]
                    ELSE [summaries EXCEPT !.gen = @ - 1]
    /\ UNCHANGED <<phase, is_connected, allow_interruption, rx_pc, fwd_pc, resp_pc,
                   tool_batch, function_responses, resp_text, sent, n_sum, n_texts>>
    /\ UNCHANGED <<stateVars, queueVars, auxVars>>

SummaryGenerated == \E text \in SummaryTexts : SummaryGeneratedWith(text)

\* safe_send_json of inject_summary returns (ok) or fails
SummarySent ==
    /\ summaries.send > 0
    /\ \E ok \in BOOLEAN : is_connected' = (is_connected /\ ok)
    /\ summaries' = [summaries EXCEPT !.send = @ - 1]
    /\ UNCHANGED <<phase, allow_interruption, rx_pc, fwd_pc, resp_pc,
                   tool_batch, function_responses, resp_text, sent, n_sum, n_texts>>
    /\ UNCHANGED <<stateVars, queueVars, auxVars>>

Next ==
    \/ ConnectOK \/ ConnectFail \/ Teardown \/ CloseDone \/ Shutdown
    \/ RxBinary \/ RxSlideInfo \/ RxSlideSync \/ RxMalformed \/ RxRequestSummary \/ RxStatusSent \/ RxDisconnect
    \/ FwdGateOpened \/ FwdPop \/ FwdTimeout \/ FwdSendDone \/ FwdSendFail
    \/ RespUnit \/ RespTurnEnd \/ RespError \/ RespSleepDone
    \/ ToolIntentSent \/ ToolResultSent \/ ToolRespondDone \/ ToolRespondFail
    \/ TextSent \/ SummaryGenerated \/ SummarySent

\* the receive loop with the forward loop, the inference stream silent
ControlNext ==
    \/ ConnectOK
    \/ RxBinary \/ RxSlideInfoAny \/ RxSlideSyncAny \/ RxMalformed \/ RxRequestSummary
    \/ RxStatusSent \/ RxDisconnect
    \/ FwdPop \/ FwdTimeout \/ FwdSendDone \/ FwdSendFail

(***************************************************************************)
(* Specifications                                                          *)
(***************************************************************************)
SummariesInit == [gen |-> 0, send |-> 0]

\* no executor call made yet
TELastInit == [op |-> "init"]

InitState ==
    /\ total_slides \in 0 .. MaxTotal
    /\ current_slide = 0
    /\ transcript_history = <<>>
    /\ sm_init_total = total_slides
    /\ sm_only_nav = TRUE
    /\ sm_nexts = 0
    /\ sm_locked = FALSE
    /\ task_op = <<>>
    /\ task_pc = <<>>
    /\ te_tools = <<>>
    /\ te_declarations = <<>>
    /\ te_last = TELastInit
    /\ transcript_events = <<>>
    /\ tr_count = 0
    /\ tr_returned = TRReturnedInit
    /\ ap_getter = "idle"
    /\ ap_torn_down = FALSE
    /\ session_metadata = InitMetadata(0)
    /\ sm_clock = 0
    /\ sm_context = NoContext
    /\ ctx_pc = [t \in CtxTasks |-> "done"]
    /\ ctx_running = "none"
    /\ ctx_current = 0
    /\ tool_last = NoToolCall
    /\ slide_command = NoSlideCommand
    /\ client_events = NoClientEvents
    /\ ctx_rounds = [t \in CtxTasks |-> 0]
    /\ sm_last = SMLastInit(total_slides)
    /\ queue_maxsize = 1
    /\ audio_queue = <<>>
    /\ is_running = FALSE
    /\ chunk_count = 0
    /\ ap_last = APLastInit
    /\ pushed = <<>>
    /\ push_base = 0
    /\ pops = 0
    /\ evicted = {}
    /\ cleared = {}
    /\ next_data = 1
    /\ phase = "NONE"
    /\ is_connected = FALSE
    /\ allow_interruption = TRUE
    /\ rx_pc = "idle"
    /\ fwd_pc = "idle"
    /\ resp_pc = "idle"
    /\ tool_batch = <<>>
    /\ function_responses = <<>>
    /\ resp_text = FALSE
    /\ summaries = SummariesInit
    /\ sent = <<>>
    /\ n_sum = 0
    /\ n_texts = 0

InitQueue ==
    /\ total_slides = 0
    /\ current_slide = 0
    /\ transcript_history = <<>>
    /\ sm_init_total = 0
    /\ sm_only_nav = TRUE
    /\ sm_nexts = 0
    /\ sm_locked = FALSE
    /\ task_op = <<>>
    /\ task_pc = <<>>
    /\ te_tools = <<>>
    /\ te_declarations = <<>>
    /\ te_last = TELastInit
    /\ transcript_events = <<>>
    /\ tr_count = 0
    /\ tr_returned = TRReturnedInit
    /\ ap_getter = "idle"
    /\ ap_torn_down = FALSE
    /\ session_metadata = InitMetadata(0)
    /\ sm_clock = 0
    /\ sm_context = NoContext
    /\ ctx_pc = [t \in CtxTasks |-> "done"]
    /\ ctx_running = "none"
    /\ ctx_current = 0
    /\ tool_last = NoToolCall
    /\ slide_command = NoSlideCommand
    /\ client_events = NoClientEvents
    /\ ctx_rounds = [t \in CtxTasks |-> 0]
    /\ sm_last = SMLastInit(0)
    /\ queue_maxsize \in 1 .. MaxCap
    /\ audio_queue = <<>>
    /\ is_running = FALSE
    /\ chunk_count = 0
    /\ ap_last = APLastInit
    /\ pushed = <<>>
    /\ push_base = 0
    /\ pops = 0
    /\ evicted = {}
    /\ cleared = {}
    /\ next_data = 1
    /\ phase = "NONE"
    /\ is_connected = FALSE
    /\ allow_interruption = TRUE
    /\ rx_pc = "idle"
    /\ fwd_pc = "idle"
    /\ resp_pc = "idle"
    /\ tool_batch = <<>>
    /\ function_responses = <<>>
    /\ resp_text = FALSE
    /\ summaries = SummariesInit
    /\ sent = <<>>
    /\ n_sum = 0
    /\ n_texts = 0

\* websocket_endpoint before the connect: session components created, the
\* audio processor started, the flag and the gate set
Init ==
    /\ total_slides = 0
    /\ current_slide = 0
    /\ transcript_history = <<>>
    /\ sm_init_total = 0
    /\ sm_only_nav = TRUE
    /\ sm_nexts = 0
    /\ sm_locked = FALSE
    /\ task_op = <<>>
    /\ task_pc = <<>>
    /\ te_tools = <<>>
    /\ te_declarations = <<>>
    /\ te_last = TELastInit
    /\ transcript_events = <<>>
    /\ tr_count = 0
    /\ tr_returned = TRReturnedInit
    /\ ap_getter = "idle"
    /\ ap_torn_down = FALSE
    /\ session_metadata = InitMetadata(0)
    /\ sm_clock = 0
    /\ sm_context = NoContext
    /\ ctx_pc = [t \in CtxTasks |-> "done"]
    /\ ctx_running = "none"
    /\ ctx_current = 0
    /\ tool_last = NoToolCall
    /\ slide_command = NoSlideCommand
    /\ client_events = NoClientEvents
    /\ ctx_rounds = [t \in CtxTasks |-> 0]
    /\ sm_last = SMLastInit(0)
    /\ queue_maxsize = SessionQueueSize
    /\ audio_queue = <<>>
    /\ is_running = TRUE
    /\ chunk_count = 0
    /\ ap_last = APLastInit
    /\ pushed = <<>>
    /\ push_base = 0
    /\ pops = 0
    /\ evicted = {}
    /\ cleared = {}
    /\ next_data = 1
    /\ phase = "CONNECTING"
    /\ is_connected = TRUE
    /\ allow_interruption = TRUE
    /\ rx_pc = "idle"
    /\ fwd_pc = "idle"
    /\ resp_pc = "idle"
    /\ tool_batch = <<>>
    /\ function_responses = <<>>
    /\ resp_text = FALSE
    /\ summaries = SummariesInit
    /\ sent = <<>>
    /\ n_sum = 0
    /\ n_texts = 0

Spec == Init /\ [][Next]_vars

SpecControl == Init /\ [][ControlNext]_vars

\* Scheduling: every task that can run does run, timers fire, and a send or
\* a generation that was started returns or fails.  Nothing is assumed of
\* what the client or the inference stream deliver, nor of a shutdown.
Fairness ==
    /\ WF_vars(Teardown)
    /\ WF_vars(CloseDone)
    /\ WF_vars(RxStatusSent)
    /\ WF_vars(FwdGateOpened)
    /\ WF_vars(FwdPop)
    /\ WF_vars(FwdTimeout)
    /\ WF_vars(FwdSendDone \/ FwdSendFail)
    /\ WF_vars(RespSleepDone)
    /\ WF_vars(ToolIntentSent)
    /\ WF_vars(ToolResultSent)
    /\ WF_vars(ToolRespondDone \/ ToolRespondFail)
    /\ WF_vars(TextSent)
    /\ WF_vars(SummaryGenerated)
    /\ WF_vars(SummarySent)

FairSpec == Spec /\ Fairness

SpecState == InitState /\ [][StateNext]_vars

SpecStore == InitState /\ [][StoreNext]_vars

SpecQueue == InitQueue /\ [][QueueNext]_vars

InitTranscript ==
    /\ total_slides = 0
    /\ current_slide = 0
    /\ transcript_history = <<>>
    /\ sm_init_total = 0
    /\ sm_only_nav = TRUE
    /\ sm_nexts = 0
    /\ sm_locked = FALSE
    /\ task_op = <<>>
    /\ task_pc = <<>>
    /\ te_tools = <<>>
    /\ te_declarations = <<>>
    /\ te_last = TELastInit
    /\ transcript_events = <<>>
    /\ tr_count = 0
    /\ tr_returned = TRReturnedInit
    /\ ap_getter = "idle"
    /\ ap_torn_down = FALSE
    /\ session_metadata = InitMetadata(0)
    /\ sm_clock = 0
    /\ sm_context = NoContext
    /\ ctx_pc = [t \in CtxTasks |-> "done"]
    /\ ctx_running = "none"
    /\ ctx_current = 0
    /\ tool_last = NoToolCall
    /\ slide_command = NoSlideCommand
    /\ client_events = NoClientEvents
    /\ ctx_rounds = [t \in CtxTasks |-> 0]
    /\ sm_last = SMLastInit(0)
    /\ queue_maxsize = 1
    /\ audio_queue = <<>>
    /\ is_running = FALSE
    /\ chunk_count = 0
    /\ ap_last = APLastInit
    /\ pushed = <<>>
    /\ push_base = 0
    /\ pops = 0
    /\ evicted = {}
    /\ cleared = {}
    /\ next_data = 1
    /\ phase = "NONE"
    /\ is_connected = FALSE
    /\ allow_interruption = TRUE
    /\ rx_pc = "idle"
    /\ fwd_pc = "idle"
    /\ resp_pc = "idle"
    /\ tool_batch = <<>>
    /\ function_responses = <<>>
    /\ resp_text = FALSE
    /\ summaries = SummariesInit
    /\ sent = <<>>
    /\ n_sum = 0
    /\ n_texts = 0

SpecTranscript == InitTranscript /\ [][TranscriptNext]_vars

InitTools ==
    /\ total_slides \in 0 .. MaxTotal
    /\ current_slide = 0
    /\ transcript_history = <<>>
    /\ sm_init_total = total_slides
    /\ sm_only_nav = TRUE
    /\ sm_nexts = 0
    /\ sm_locked = FALSE
    /\ task_op = <<>>
    /\ task_pc = <<>>
    /\ te_tools = <<>>
    /\ te_declarations = <<>>
    /\ te_last = TELastInit
    /\ transcript_events = <<>>
    /\ tr_count = 0
    /\ tr_returned = TRReturnedInit
    /\ ap_getter = "idle"
    /\ ap_torn_down = FALSE
    /\ session_metadata = InitMetadata(0)
    /\ sm_clock = 0
    /\ sm_context = NoContext
    /\ ctx_pc = [t \in CtxTasks |-> "done"]
    /\ ctx_running = "none"
    /\ ctx_current = 0
    /\ tool_last = NoToolCall
    /\ slide_command = NoSlideCommand
    /\ client_events = NoClientEvents
    /\ ctx_rounds = [t \in CtxTasks |-> 0]
    /\ sm_last = SMLastInit(total_slides)
    /\ queue_maxsize = 1
    /\ audio_queue = <<>>
    /\ is_running = FALSE
    /\ chunk_count = 0
    /\ ap_last = APLastInit
    /\ pushed = <<>>
    /\ push_base = 0
    /\ pops = 0
    /\ evicted = {}
    /\ cleared = {}
    /\ next_data = 1
    /\ phase = "NONE"
    /\ is_connected = FALSE
    /\ allow_interruption = TRUE
    /\ rx_pc = "idle"
    /\ fwd_pc = "idle"
    /\ resp_pc = "idle"
    /\ tool_batch = <<>>
    /\ function_responses = <<>>
    /\ resp_text = FALSE
    /\ summaries = SummariesInit
    /\ sent = <<>>
    /\ n_sum = 0
    /\ n_texts = 0

SpecTools == InitTools /\ [][ToolsNext]_vars

InitContext ==
    /\ total_slides = MaxTotal
    /\ current_slide = 0
    /\ transcript_history = <<>>
    /\ sm_init_total = MaxTotal
    /\ sm_only_nav = TRUE
    /\ sm_nexts = 0
    /\ sm_locked = FALSE
    /\ task_op = <<>>
    /\ task_pc = <<>>
    /\ te_tools = <<>>
    /\ te_declarations = <<>>
    /\ te_last = TELastInit
    /\ transcript_events = <<>>
    /\ tr_count = 0
    /\ tr_returned = TRReturnedInit
    /\ ap_getter = "idle"
    /\ ap_torn_down = FALSE
    /\ session_metadata = InitMetadata(0)
    /\ sm_clock = 0
    /\ sm_context = NoContext
    /\ ctx_pc = [t \in CtxTasks |-> "start"]
    /\ ctx_running = "none"
    /\ ctx_current = 0
    /\ tool_last = NoToolCall
    /\ slide_command = NoSlideCommand
    /\ client_events = NoClientEvents
    /\ ctx_rounds = [t \in CtxTasks |-> 0]
    /\ sm_last = SMLastInit(MaxTotal)
    /\ queue_maxsize = 1
    /\ audio_queue = <<>>
    /\ is_running = FALSE
    /\ chunk_count = 0
    /\ ap_last = APLastInit
    /\ pushed = <<>>
    /\ push_base = 0
    /\ pops = 0
    /\ evicted = {}
    /\ cleared = {}
    /\ next_data = 1
    /\ phase = "NONE"
    /\ is_connected = FALSE
    /\ allow_interruption = TRUE
    /\ rx_pc = "idle"
    /\ fwd_pc = "idle"
    /\ resp_pc = "idle"
    /\ tool_batch = <<>>
    /\ function_responses = <<>>
    /\ resp_text = FALSE
    /\ summaries = SummariesInit
    /\ sent = <<>>
    /\ n_sum = 0
    /\ n_texts = 0

SpecContext == InitContext /\ [][ContextNext]_vars

InitConc ==
    /\ total_slides \in ConcTotals
    /\ current_slide = 0
    /\ transcript_history = <<>>
    /\ sm_init_total = total_slides
    /\ sm_only_nav = TRUE
    /\ sm_nexts = 0
    /\ sm_locked = FALSE
    /\ task_op \in [Tasks -> ConcOps]
    /\ task_pc = [t \in Tasks |-> "start"]
    /\ te_tools = <<>>
    /\ te_declarations = <<>>
    /\ te_last = TELastInit
    /\ transcript_events = <<>>
    /\ tr_count = 0
    /\ tr_returned = TRReturnedInit
    /\ ap_getter = "idle"
    /\ ap_torn_down = FALSE
    /\ session_metadata = InitMetadata(0)
    /\ sm_clock = 0
    /\ sm_context = NoContext
    /\ ctx_pc = [t \in CtxTasks |-> "done"]
    /\ ctx_running = "none"
    /\ ctx_current = 0
    /\ tool_last = NoToolCall
    /\ slide_command = NoSlideCommand
    /\ client_events = NoClientEvents
    /\ ctx_rounds = [t \in CtxTasks |-> 0]
    /\ sm_last = SMLastInit(total_slides)
    /\ queue_maxsize = 1
    /\ audio_queue = <<>>
    /\ is_running = FALSE
    /\ chunk_count = 0
    /\ ap_last = APLastInit
    /\ pushed = <<>>
    /\ push_base = 0
    /\ pops = 0
    /\ evicted = {}
    /\ cleared = {}
    /\ next_data = 1
    /\ phase = "NONE"
    /\ is_connected = FALSE
    /\ allow_interruption = TRUE
    /\ rx_pc = "idle"
    /\ fwd_pc = "idle"
    /\ resp_pc = "idle"
    /\ tool_batch = <<>>
    /\ function_responses = <<>>
    /\ resp_text = FALSE
    /\ summaries = SummariesInit
    /\ sent = <<>>
    /\ n_sum = 0
    /\ n_texts = 0

SpecConc == InitConc /\ [][ConcNext]_vars

InitExec ==
    /\ total_slides = 0
    /\ current_slide = 0
    /\ transcript_history = <<>>
    /\ sm_init_total = 0
    /\ sm_only_nav = TRUE
    /\ sm_nexts = 0
    /\ sm_locked = FALSE
    /\ task_op = <<>>
    /\ task_pc = <<>>
    /\ te_tools = <<>>
    /\ te_declarations = <<>>
    /\ te_last = TELastInit
    /\ transcript_events = <<>>
    /\ tr_count = 0
    /\ tr_returned = TRReturnedInit
    /\ ap_getter = "idle"
    /\ ap_torn_down = FALSE
    /\ session_metadata = InitMetadata(0)
    /\ sm_clock = 0
    /\ sm_context = NoContext
    /\ ctx_pc = [t \in CtxTasks |-> "done"]
    /\ ctx_running = "none"
    /\ ctx_current = 0
    /\ tool_last = NoToolCall
    /\ slide_command = NoSlideCommand
    /\ client_events = NoClientEvents
    /\ ctx_rounds = [t \in CtxTasks |-> 0]
    /\ sm_last = SMLastInit(0)
    /\ queue_maxsize = 1
    /\ audio_queue = <<>>
    /\ is_running = FALSE
    /\ chunk_count = 0
    /\ ap_last = APLastInit
    /\ pushed = <<>>
    /\ push_base = 0
    /\ pops = 0
    /\ evicted = {}
    /\ cleared = {}
    /\ next_data = 1
    /\ phase = "NONE"
    /\ is_connected = FALSE
    /\ allow_interruption = TRUE
    /\ rx_pc = "idle"
    /\ fwd_pc = "idle"
    /\ resp_pc = "idle"
    /\ tool_batch = <<>>
    /\ function_responses = <<>>
    /\ resp_text = FALSE
    /\ summaries = SummariesInit
    /\ sent = <<>>
    /\ n_sum = 0
    /\ n_texts = 0

SpecExec == InitExec /\ [][ExecNext]_vars

(***************************************************************************)
(* Properties of the session (Spec, FairSpec)                              *)
(***************************************************************************)
\* C1: the forward loop never hands a chunk to send_realtime_input while a
\* tool-call batch is being processed (between the closing of the gate and
\* its reopening), also when it passed the gate wait before the gate closed.
C1_NoSendDuringToolCalls ==
    [][(fwd_pc = "pop" /\ fwd_pc' = "send") => ~InProcessToolCalls]_vars

\* C2: the gate is open before the loops start, and it is closed only while
\* the response loop is inside process_tool_calls: however the handling ends
\* (return, send_tool_response raising, cancellation) the gate is open again.
C2_GateClosedOnlyInToolCalls ==
    /\ phase = "CONNECTING" => allow_interruption
    /\ ~allow_interruption => InProcessToolCalls

C2_Witness ==
    /\ resp_pc = "sleep"
    /\ fwd_pc = "gate"
    /\ allow_interruption

RECURSIVE IsSubseq(_, _)
IsSubseq(s, t) ==
    IF s = <<>> THEN TRUE
    ELSE IF t = <<>> THEN FALSE
    ELSE IF Head(s) = Head(t) THEN IsSubseq(Tail(s), Tail(t))
    ELSE IsSubseq(s, Tail(t))

NoDuplicates(s) == \A i, j \in 1 .. Len(s) : i # j => s[i] # s[j]

\* C5: the chunks handed to the inference stream are a subsequence of the
\* chunks accepted by push, none twice; a pushed chunk that was not handed
\* over was evicted by a later push, is still queued, or was discarded by
\* stop() at teardown.
C5_ForwardedInPushOrder ==
    /\ IsSubseq(sent, pushed)
    /\ NoDuplicates(sent)
    /\ Payloads(pushed) = Payloads(sent) \cup Payloads(audio_queue) \cup evicted \cup cleared
    /\ Payloads(sent) \cap Payloads(audio_queue) = {}
    /\ (Payloads(sent) \cup Payloads(audio_queue)) \cap (evicted \cup cleared) = {}
    /\ evicted \cap cleared = {}

C5_Witness ==
    /\ Len(sent) >= 2
    /\ evicted # {}
    /\ phase = "CLOSED"

\* C6: once the connected flag is false in an active session, the session
\* eventually reaches CLOSED.
C6_DisconnectLeadsToClosed ==
    (phase = "ACTIVE" /\ ~is_connected) ~> (phase = "CLOSED")

\* C7: no background summary task of a session is still running once the
\* session has reached CLOSED.
C7_NoSummaryAfterClosed ==
    phase = "CLOSED" => summaries.gen + summaries.send = 0

(***************************************************************************)
(* Properties of the bounded audio queue (SpecQueue)                       *)
(***************************************************************************)
LastK(s, k) == SubSeq(s, Len(s) - k + 1, Len(s))

\* the messages accepted since the processor was last started or stopped
PushedSince == SubSeq(pushed, push_base + 1, Len(pushed))

\* C3: on a running processor of capacity k >= 1 with no pop since it was
\* started, after n > k pushes the queue holds exactly the k most recently
\* pushed chunks, oldest of them at the head.
C3_KeepsMostRecent ==
    (is_running /\ pops = 0 /\ queue_maxsize >= 1 /\ Len(PushedSince) > queue_maxsize)
        => audio_queue = LastK(PushedSince, queue_maxsize)

C3_Witness ==
    /\ is_running /\ pops = 0 /\ queue_maxsize >= 2
    /\ Len(PushedSince) > queue_maxsize
    /\ ap_last.op = "push_audio"

IsPush(call) == call.op \in {"push_audio", "push_audio_sync"}

InBounds(cur, tot) == cur >= 0 /\ (tot > 0 => cur <= tot - 1)

\* C8 as stated: after any sequence of navigate, set_current_slide,
\* set_total_slides and reset calls, current_slide >= 0 and, if
\* total_slides > 0, current_slide <= total_slides - 1.
C8_AlwaysInBounds == InBounds(current_slide, total_slides)

\* C8 amended: current_slide >= 0 in every state; the upper bound holds after
\* reset and after every successful next or jump, and prev and failed
\* navigations preserve it; the two setters only clamp at zero.
C8_BoundsByNavigation ==
    /\ current_slide >= 0
    /\ sm_last.op = "reset" => InBounds(current_slide, total_slides)
    /\ (sm_last.op = "navigate" /\ ~sm_last.raised
          /\ sm_last.direction \in {"next", "jump"})
         => InBounds(current_slide, total_slides)
    /\ (sm_last.op = "navigate" /\ InBounds(sm_last.pre_current, sm_last.pre_total))
         => InBounds(current_slide, total_slides)

C8_Witness ==
    /\ sm_last.op = "navigate" /\ sm_last.direction = "next"
    /\ sm_last.pre_total > 0
    /\ sm_last.pre_current > sm_last.pre_total - 1
    /\ current_slide = total_slides - 1

\* C9: a store created with total_slides = T > 0 and driven only by navigate
\* calls keeps 0 <= current_slide <= T - 1.
C9_NavigateInBounds ==
    (sm_only_nav /\ sm_init_total > 0)
        => /\ total_slides = sm_init_total
           /\ 0 <= current_slide
           /\ current_slide <= sm_init_total - 1

C9_Witness ==
    /\ sm_only_nav /\ sm_init_total > 0
    /\ sm_last.op = "navigate" /\ sm_last.direction = "jump"
    /\ sm_last.index.some /\ sm_last.index.val > sm_init_total - 1
    /\ sm_last.pre_current < sm_init_total - 1

\* the index the navigation contract gives
ExpectedIndex(direction, index, cur, tot) ==
    CASE direction = "next" -> IF tot > 0 THEN Min(cur + 1, tot - 1) ELSE cur + 1
      [] direction = "prev" -> Max(cur - 1, 0)
      [] direction = "jump" -> IF tot > 0 THEN Min(Max(index.val, 0), tot - 1)
                                          ELSE Max(index.val, 0)

\* C10: navigate returns and stores the same index: next gives
\* min(current+1, total-1) when total > 0 and current+1 when total = 0, prev
\* gives max(current-1, 0), jump(index) gives min(max(index,0), total-1) when
\* total > 0 and max(index,0) when total = 0.
C10_NavigateResult ==
    sm_last.op = "navigate" =>
        /\ (sm_last.direction \in {"next", "prev"}
              \/ (sm_last.direction = "jump" /\ sm_last.index.some))
             => ~sm_last.raised
        /\ ~sm_last.raised =>
              /\ sm_last.ret = ExpectedIndex(sm_last.direction, sm_last.index,
                                             sm_last.pre_current, sm_last.pre_total)
              /\ current_slide = sm_last.ret

C10_Witness ==
    /\ sm_last.op = "navigate" /\ sm_last.direction = "next" /\ ~sm_last.raised
    /\ sm_last.pre_total > 0
    /\ sm_last.pre_current = sm_last.pre_total - 1
    /\ current_slide = sm_last.pre_current

\* C11: on a store whose total_slides is 0, every next adds exactly one to
\* current_slide with no upper clamp (n next calls from 0 give n), and prev
\* never takes current_slide below 0.
C11_UnknownTotalUnclamped ==
    /\ (sm_init_total = 0 /\ sm_nexts >= 0) => current_slide = sm_nexts
    /\ (sm_last.op = "navigate" /\ sm_last.direction = "next" /\ sm_last.pre_total = 0)
         => /\ ~sm_last.raised
            /\ current_slide = sm_last.pre_current + 1
            /\ sm_last.ret = current_slide
    /\ (sm_last.op = "navigate" /\ sm_last.direction = "prev")
         => /\ ~sm_last.raised
            /\ current_slide >= 0
            /\ current_slide = Max(sm_last.pre_current - 1, 0)

C11_Witness ==
    /\ sm_init_total = 0 /\ total_slides = 0
    /\ sm_nexts = MaxIndex
    /\ current_slide = MaxIndex

\* C12: navigate("jump") without an index and navigate with a direction
\* other than next, prev, jump raise ValueError, and exactly these calls do;
\* the failed call leaves current_slide, total_slides and the transcript as
\* they were and the lock free, so that later calls proceed.
InvalidNavigation(direction, index) ==
    \/ direction = "jump" /\ ~index.some
    \/ direction \notin {"next", "prev", "jump"}

C12_InvalidNavigationFails ==
    [][(sm_last' # sm_last /\ sm_last'.op = "navigate")
         => /\ sm_last'.raised <=> InvalidNavigation(sm_last'.direction, sm_last'.index)
            /\ sm_last'.raised =>
                  /\ current_slide' = current_slide
                  /\ total_slides' = total_slides
                  /\ transcript_history' = transcript_history
                  /\ LockFree(sm_locked')]_vars

C12_Witness ==
    /\ sm_last.op = "navigate" /\ sm_last.raised
    /\ sm_last.direction = "jump" /\ ~sm_last.index.some
    /\ sm_last.pre_current > 0
    /\ current_slide = sm_last.pre_current
    /\ ~sm_locked

(***************************************************************************)
(* Properties of concurrent calls on one store (SpecConc)                  *)
(***************************************************************************)
\* current_slide after the calls of the tasks, made one after the other in
\* the given order, by the navigation contract
RECURSIVE SerialResult(_, _, _)
SerialResult(order, cur, tot) ==
    IF order = <<>> THEN cur
    ELSE LET op == task_op[Head(order)]
             nxt == IF op.kind = "navigate" /\ ~InvalidNavigation(op.direction, op.index)
                    THEN ExpectedIndex(op.direction, op.index, cur, tot)
                    ELSE cur
         IN SerialResult(Tail(order), nxt, tot)

AllTasksDone == \A t \in Tasks : task_pc[t] = "done"

Appenders == {t \in Tasks : task_op[t].kind = "add_transcript"}

\* C13: once concurrent navigation calls and transcript appends have all
\* returned, current_slide is what the navigation calls give in some serial
\* order, and the transcript holds every appended entry exactly once.
C13_ConcurrentCallsSerialize ==
    AllTasksDone =>
        /\ \E order \in Permutations(Tasks) :
              current_slide = SerialResult(order, 0, total_slides)
        /\ Len(transcript_history) = Cardinality(Appenders)
        /\ \A t \in Appenders :
              Cardinality({i \in 1 .. Len(transcript_history) : transcript_history[i] = t}) = 1

C13_Witness ==
    /\ AllTasksDone
    /\ \E t1, t2, t3 \in Tasks :
          /\ task_op[t1] = ConcOp("navigate", "jump", Some(2))
          /\ task_op[t2] = ConcOp("navigate", "prev", None)
          /\ task_op[t3].kind = "add_transcript"
          /\ transcript_history = <<t3>>
    /\ current_slide = 1

(***************************************************************************)
(* Properties of tool-call handling in the session (Spec)                  *)
(***************************************************************************)
\* the response loop leaves the intent_detected send of the call in hand
IntentStepDone ==
    /\ resp_pc = "intent"
    /\ resp_pc' # "intent" \/ tool_batch' # tool_batch

\* C14: for every function call of a batch handled while the client is
\* connected, a result event (slide_command or tool_result) is sent to the
\* client after the call ran, also when the executor result is an error.
C14_ResultEventForEveryCall ==
    [][(IntentStepDone /\ is_connected') => resp_pc' = "result"]_vars

(***************************************************************************)
(* Properties of the tool executor (SpecExec)                              *)
(***************************************************************************)
\* a text (sequence of parts) that is not empty
NonEmptyText(text) == text # PyNone /\ \E i \in 1 .. Len(text) : text[i] # ""

\* the text contains the part
ContainsText(text, part) == \E i \in 1 .. Len(text) : text[i] = part

RegistryUnchanged ==
    te_tools = te_last.pre_tools /\ te_declarations = te_last.pre_declarations

\* C15: execute_tool with a name that is not registered does not raise; it
\* returns status error, a non-empty error message, data None and the
\* caller's id and name, and leaves the registry as it was.
C15_UnknownToolReturnsError ==
    (te_last.op = "execute_tool" /\ ~HasTool(te_last.pre_tools, te_last.name)) =>
        /\ ~te_last.raised
        /\ te_last.result.response.status = "error"
        /\ NonEmptyText(te_last.result.response.error)
        /\ te_last.result.response.data = PyNone
        /\ te_last.result.id = te_last.id
        /\ te_last.result.name = te_last.name
        /\ RegistryUnchanged

C15_Witness ==
    /\ te_last.op = "execute_tool"
    /\ te_last.name = "error_tool"
    /\ ~HasTool(te_last.pre_tools, "error_tool")
    /\ HasTool(te_last.pre_tools, "navigate_slide")
    /\ te_last.result.response.status = "error"

\* the last call was execute_tool on a registered name
ExecutedRegistered == te_last.op = "execute_tool" /\ HasTool(te_last.pre_tools, te_last.name)

\* what the handler of the last execute_tool did with the arguments
LastHandlerCall == CallHandler(te_last.pre_tools[te_last.name], te_last.args)

\* C16: when the registered handler raises (a signature mismatch included),
\* execute_tool does not raise; it returns status error, data None, the id
\* preserved and an error message containing the exception's message, and
\* the executor is as before, so that a later execute_tool works.
C16_HandlerFaultReturnsError ==
    (ExecutedRegistered /\ LastHandlerCall.raised) =>
        /\ ~te_last.raised
        /\ te_last.result.response.status = "error"
        /\ te_last.result.response.data = PyNone
        /\ te_last.result.id = te_last.id
        /\ te_last.result.name = te_last.name
        /\ ContainsText(te_last.result.response.error, LastHandlerCall.value)
        /\ RegistryUnchanged

C16_Witness ==
    /\ ExecutedRegistered
    /\ te_last.pre_tools[te_last.name].outcome = "raise"
    /\ te_last.args = {"x"}
    /\ ContainsText(te_last.result.response.error, "Intentional error")

\* the id is copied in the three outcomes
IdPreserved == te_last.op = "execute_tool" => (~te_last.raised /\ te_last.result.id = te_last.id)

\* a handler that returns gives status success, its value as data, error None
SuccessVerbatim ==
    (ExecutedRegistered /\ ~LastHandlerCall.raised) =>
        /\ te_last.result.response.status = "success"
        /\ te_last.result.response.data = LastHandlerCall.value
        /\ te_last.result.response.error = PyNone

\* C17 as stated: success carries the handler's value verbatim and error
\* None, the id is the caller's in the three outcomes, and exactly one of
\* data / error is not None, according to the status.
C17_ExactlyOneOfDataError ==
    /\ IdPreserved
    /\ SuccessVerbatim
    /\ te_last.op = "execute_tool" =>
          LET resp == te_last.result.response IN
          /\ resp.status = "success" => (resp.data # PyNone /\ resp.error = PyNone)
          /\ resp.status = "error" => (resp.data = PyNone /\ resp.error # PyNone)

\* C17 amended: success carries the handler's value verbatim (None when the
\* handler returns None) and error None; the two error outcomes carry data
\* None and a non-empty error; the id is the caller's in the three outcomes.
C17_ResultByStatus ==
    /\ IdPreserved
    /\ SuccessVerbatim
    /\ te_last.op = "execute_tool" =>
          LET resp == te_last.result.response IN
          /\ resp.status \in {"success", "error"}
          /\ resp.status = "success" => resp.error = PyNone
          /\ resp.status = "error" => (resp.data = PyNone /\ NonEmptyText(resp.error))

C17_Witness ==
    /\ ExecutedRegistered
    /\ te_last.result.response.status = "success"
    /\ te_last.result.response.data = PyNone
    /\ te_last.result.response.error = PyNone
    /\ te_last.result.id = "test_id_789"

\* C18: register_tool raises exactly when the name is already registered or
\* the handler is not an async function; a failed registration changes
\* neither handlers nor declarations (the first registration stays), a
\* successful one adds both, and handlers and declarations always have the
\* same names.
C18_RegisterToolGuards ==
    /\ DOMAIN te_tools = DOMAIN te_declarations
    /\ te_last.op = "register_tool" =>
          /\ te_last.raised <=> (HasTool(te_last.pre_tools, te_last.name)
                                    \/ ~te_last.func.is_async)
          /\ te_last.raised => RegistryUnchanged
          /\ ~te_last.raised =>
                /\ te_tools[te_last.name] = te_last.func
                /\ te_declarations[te_last.name] = te_last.id
                /\ \A n \in DOMAIN te_last.pre_tools :
                      /\ te_tools[n] = te_last.pre_tools[n]
                      /\ te_declarations[n] = te_last.pre_declarations[n]

C18_Witness ==
    /\ te_last.op = "register_tool" /\ te_last.raised
    /\ te_last.func.is_async
    /\ HasTool(te_last.pre_tools, te_last.name)
    /\ te_tools[te_last.name] # te_last.func
    /\ te_declarations[te_last.name] # te_last.id

(***************************************************************************)
(* Properties of the receive and forward loops (Spec)                      *)
(***************************************************************************)
\* C19: no malformed text frame is fatal to the receive loop: whatever the
\* payload, handling it leaves the connected flag true and the loop goes on
\* to read the next frame.
C19_MalformedFrameNotFatal ==
    [][(is_connected /\ RxMalformed) => (is_connected' /\ rx_pc' = "recv")]_vars

\* C20: a failed send of the forward loop ends the session (connected false,
\* loop left) when the error is classified as stream closed; after any other
\* send failure the connected flag is as before and the loop continues.
C20_SendFailureByClass ==
    [][/\ FwdSendFailWith("closed") => (~is_connected' /\ fwd_pc' = "done")
       /\ FwdSendFailWith("other") => (is_connected' = is_connected /\ fwd_pc' # "done")]_vars

(***************************************************************************)
(* Properties of the response loop and the summary tasks (Spec)            *)
(***************************************************************************)
\* C21: in the response loop an error classified as connection closed ends
\* the loop with the connected flag false; any other error, also one raised
\* inside tool-call handling, leaves the flag as it is, the loop sleeps and
\* then reads the next turn.
C21_ResponseErrorByClass ==
    [][/\ (RespErrorWith("closed") \/ ToolRespondFailWith("closed"))
            => (~is_connected' /\ resp_pc' = "done")
       /\ (RespErrorWith("other") \/ ToolRespondFailWith("other"))
            => (is_connected' = is_connected /\ resp_pc' = "sleep")
       /\ (resp_pc = "sleep" /\ resp_pc' # "sleep" /\ is_connected')
            => resp_pc' = "recv"]_vars

C21_Witness ==
    /\ phase = "ACTIVE" /\ resp_pc = "sleep"
    /\ is_connected
    /\ current_slide = 1
    /\ function_responses = <<>>

\* the connected flag, the gate and the positions of the three loops
coreLoops == <<is_connected, allow_interruption, rx_pc, fwd_pc, resp_pc>>

\* C22: no step of a background summary task, failed or not, changes the
\* connected flag, the gate or the position of any of the three loops.
C22_SummaryNeverAffectsLoops ==
    [][(SummaryGenerated \/ SummarySent) => UNCHANGED coreLoops]_vars

\* the texts received from the inference stream so far, in receipt order
TextsReceived == [i \in 1 .. n_texts |-> i]

\* the response loop is between two response units
BetweenUnits == phase = "ACTIVE" /\ resp_pc \in {"recv", "sleep"}

\* C23: while the client is connected, once a response unit is handled every
\* text received so far is in the transcript of the state store and was sent
\* to the client as a transcript event, both in receipt order.
C23_TextsAppendedAndRelayed ==
    (BetweenUnits /\ is_connected)
        => (transcript_history = TextsReceived /\ transcript_events = TextsReceived)

(***************************************************************************)
(* Properties of the transcript buffer (SpecTranscript)                    *)
(***************************************************************************)
\* the lines of a string returned by get_transcript: split at the separators
SplitLines(text) ==
    IF text = <<>> THEN <<>>
    ELSE [i \in 1 .. (Len(text) + 1) \div 2 |-> text[2 * i - 1]]

\* every second element of the string is a separator, no other one is
WellJoined(text) ==
    /\ text # <<>> => Len(text) % 2 = 1
    /\ \A i \in 1 .. Len(text) : (text[i] = Newline) <=> (i % 2 = 0)

\* the entries e(n-k+1) .. e(n), the entry of call i being i
MostRecent(n, k) == [i \in 1 .. k |-> n - k + i]

\* C24: the buffer never holds more than 100 entries; after n appends
\* get_transcript returns the most recent min(n, 100) entries in insertion
\* order joined by newlines, the empty string for n = 0 and e51..e150 for
\* n = 150.
C24_TranscriptKeepsLast100 ==
    /\ Len(transcript_history) <= 100
    /\ tr_returned.called =>
        /\ WellJoined(tr_returned.text)
        /\ SplitLines(tr_returned.text)
                = MostRecent(tr_returned.n, Min(tr_returned.n, 100))
        /\ tr_returned.n = 0 => tr_returned.text = <<>>
        /\ tr_returned.n = 150 =>
                SplitLines(tr_returned.text) = [i \in 1 .. 100 |-> 50 + i]

C24_Witness ==
    /\ tr_returned.called /\ tr_returned.n = 150
    /\ tr_count = 150
    /\ Len(tr_returned.text) = 199

(***************************************************************************)
(* Properties of the consumer side of the audio queue (SpecQueue)          *)
(***************************************************************************)
\* C25: once stop has run no consumer is suspended in get_audio: the pop of
\* a consumer that was waiting has failed with the queue-closed condition,
\* and a pop issued after stop fails the same way instead of suspending.
C25_StopReleasesConsumer ==
    ap_torn_down => ap_getter # "waiting"

\* the step is a push (either variant) that returned ret
PushReturned(ret) == (QPush \/ QPushSync) /\ ap_last'.ret = ret

\* C26: while the processor runs the chunk counter equals the number of
\* pushes accepted since it was started; a push returning True adds exactly
\* one, also when it evicted a chunk; pop, a rejected push and stop leave the
\* counter alone; the counter never decreases while the processor runs.
C26_CounterCountsAccepted ==
    /\ [](is_running => chunk_count = Len(PushedSince))
    /\ [][/\ PushReturned(TRUE) => chunk_count' = chunk_count + 1
          /\ (PushReturned(FALSE) \/ QPop \/ QPopEmpty \/ QStop)
                => chunk_count' = chunk_count
          /\ (is_running /\ is_running') => chunk_count' >= chunk_count]_vars

C26_Witness ==
    /\ is_running /\ IsPush(ap_last) /\ ap_last.ret
    /\ Full(ap_last.pre_queue, queue_maxsize)
    /\ chunk_count = 3
    /\ Len(audio_queue) = 1
    /\ push_base > 0

\* C27: a push (either variant) on a processor that is not running, never
\* started or stopped, returns False and leaves the queue contents and the
\* chunk counter unchanged.
C27_PushWhenStoppedRejected ==
    [][((QPush \/ QPushSync) /\ ~is_running)
        => (/\ ~ap_last'.ret
            /\ audio_queue' = audio_queue
            /\ chunk_count' = chunk_count)]_vars

C27_Witness ==
    /\ IsPush(ap_last) /\ ~ap_last.pre_running /\ ~ap_last.ret
    /\ ap_torn_down
    /\ chunk_count = 2
    /\ cleared # {}

\* the fields of the store other than the two slide numbers
TranscriptAndMetadata == <<transcript_history, session_metadata>>

\* C28: set_current_slide(i) stores max(0, i) and set_total_slides(n) stores
\* max(0, n); each setter leaves the other field, the transcript and the
\* metadata unchanged.
C28_SettersClampAndFrame ==
    [][/\ SMSetCurrentSlide =>
            LET i == sm_last'.index.val IN
            /\ current_slide' = (IF i < 0 THEN 0 ELSE i)
            /\ UNCHANGED <<total_slides, TranscriptAndMetadata>>
       /\ SMSetTotalSlides =>
            LET n == sm_last'.index.val IN
            /\ total_slides' = (IF n < 0 THEN 0 ELSE n)
            /\ UNCHANGED <<current_slide, TranscriptAndMetadata>>]_vars

C28_Witness ==
    /\ sm_last.op = "set_total_slides" /\ sm_last.index.val < 0
    /\ total_slides = 0 /\ sm_last.pre_total > 0
    /\ current_slide > 0
    /\ transcript_history # <<>>
    /\ session_metadata.session_id # PyNone

StoreNow == StoreView(current_slide, total_slides, session_metadata)

\* the step is the body of the reader's get_context
GetContextReturns == ReaderGetContext /\ ctx_pc'["reader"] = "use"

\* C30: the dict returned by get_context holds current_slide, total_slides
\* and metadata of one state of the store and agrees with the
\* get_current_slide the same task made right before, whatever the writer
\* task does; writes of the store made later do not change a returned dict,
\* and writing into the returned dict does not change the store.
C30_ContextIsSnapshotCopy ==
    /\ [][GetContextReturns =>
            /\ sm_context'.view = StoreNow
            /\ sm_context'.view.current_slide = ctx_current]_vars
    /\ []((sm_context.called /\ ~sm_context.modified)
            => sm_context.view = sm_context.at)
    /\ [][ReaderUse => StoreNow' = StoreNow]_vars

C30_Witness ==
    /\ sm_context.called /\ sm_context.modified
    /\ sm_context.view.session_metadata.session_id = "edited"
    /\ sm_context.at.session_metadata.session_id = "session-1"
    /\ session_metadata.session_id = "session-1"
    /\ sm_context.at.current_slide = 0
    /\ current_slide = 2
    /\ ctx_rounds["writer"] = 2

(***************************************************************************)
(* Properties of the session's tools (SpecTools)                           *)
(***************************************************************************)
\* the step is an execute_tool call of the session's navigate_slide tool
NavigateToolCalled == ToolsExecute /\ tool_last'.call.name = "navigate_slide"

\* C31: an invalid navigation (jump without index, unknown direction) through
\* the executor does not raise: the result has status success, its data has
\* success False and an error message, and current_slide is unchanged; a
\* valid navigation made after it takes effect from that unchanged position.
C31_InvalidNavigationIsResult ==
    [][NavigateToolCalled =>
        LET call == tool_last'.call
            res == tool_last'.response.response
            index == NavigateSlideWrapper(call.direction, call.index)
        IN IF InvalidNavigation(call.direction, call.index)
           THEN /\ res.status = "success"
                /\ res.data.success = FALSE
                /\ res.data.error # <<>>
                /\ current_slide' = current_slide
           ELSE /\ res.status = "success"
                /\ res.data.success = TRUE
                /\ current_slide' = ExpectedIndex(call.direction, index,
                                                  current_slide, total_slides)
                /\ res.data.current_slide = current_slide']_vars

C31_Witness ==
    /\ tool_last.called /\ tool_last.pre_rejected
    /\ tool_last.call = NavCall("next", None)
    /\ tool_last.pre_current = 1
    /\ current_slide = 2
    /\ tool_last.response.response.data.current_slide = 2


(***************************************************************************)
(* C32  A failed handshake with the inference stream                       *)
(***************************************************************************)
LoopsNeverStarted == rx_pc = "idle" /\ fwd_pc = "idle" /\ resp_pc = "idle"

HandshakeFailed == phase # "CONNECTING" /\ ~client_events.connected

\* C32: when the handshake with the inference stream fails the session goes
\* from CONNECTING straight to CLOSING with the teardown done (connected flag
\* false, audio processor stopped and its queue empty); from then on none of
\* the three loops has been started, no 'connected' status event has been
\* sent, and the only thing left is the close of the client connection,
\* which ends the endpoint in CLOSED whether it returns or raises.
C32_HandshakeFailure ==
    /\ [][ConnectFail => /\ phase = "CONNECTING" /\ phase' = "CLOSING"
                         /\ ~is_connected' /\ ~is_running' /\ audio_queue' = <<>>
                         /\ HandshakeFailed']_vars
    /\ [](HandshakeFailed => /\ LoopsNeverStarted
                             /\ phase \in {"CLOSING", "CLOSED"}
                             /\ ~is_connected /\ ~is_running /\ audio_queue = <<>>)
    /\ [][HandshakeFailed => /\ HandshakeFailed'
                             /\ (phase = "CLOSING" /\ phase' # phase => CloseDone)]_vars

C32_Witness == HandshakeFailed /\ phase = "CLOSED" /\ LoopsNeverStarted /\ chunk_count = 0


(***************************************************************************)
(* C33  Teardown after the loops                                           *)
(***************************************************************************)
LoopsStopped ==
    /\ rx_pc \in {"idle", "done"}
    /\ fwd_pc \in {"idle", "done"}
    /\ resp_pc \in {"idle", "done"}

Released == phase \in {"CLOSING", "CLOSED"}

\* C33: the teardown (queue cleared, processor stopped, client connection
\* closed) is entered only in a state where the receive, forward and
\* response loops have all ended; once the resources are released no loop
\* moves again and nothing is pushed to or popped from the queue or sent to
\* the inference stream; and the close of the client connection always ends
\* in CLOSED, whether it returns or raises.
C33_TeardownAfterLoops ==
    /\ [][Released' /\ ~Released => LoopsStopped /\ audio_queue' = <<>> /\ ~is_running']_vars
    /\ [](Released => LoopsStopped /\ audio_queue = <<>> /\ ~is_running)
    /\ [][Released => /\ UNCHANGED <<rx_pc, fwd_pc, resp_pc, audio_queue, sent, pushed,
                                    chunk_count, pops, evicted, cleared>>
                      /\ phase' \in {phase, "CLOSED"}]_vars

C33_Witness ==
    /\ phase = "CLOSED"
    /\ rx_pc = "done" /\ fwd_pc = "done" /\ resp_pc = "done"
    /\ cleared # {} /\ sent # <<>>


(***************************************************************************)
(* C34  The forward loop at the gate and on a pop timeout                  *)
(***************************************************************************)
AtClosedGate == phase = "ACTIVE" /\ fwd_pc = "gate"

\* C34: a forward loop waiting at the gate sends nothing to the inference
\* stream and goes on to the pop only in a state where the gate is open (it
\* leaves the wait otherwise only by cancellation); and a pop that times out
\* on the empty queue leaves the connected flag, the queue and the phase as
\* they are and takes the loop back to its head: done if the flag is false,
\* else the pop if the gate is open and the gate wait if it is closed.
C34_GateWaitAndTimeout ==
    /\ [][AtClosedGate => /\ sent' = sent
                          /\ fwd_pc' \in {"gate", "pop", "done"}
                          /\ (fwd_pc' = "pop" => allow_interruption /\ audio_queue' = audio_queue)
                          /\ (fwd_pc' = "done" => Shutdown)]_vars
    /\ [][FwdTimeout => /\ audio_queue = <<>>
                        /\ UNCHANGED <<is_connected, phase, audio_queue, sent, allow_interruption>>
                        /\ fwd_pc' = IF ~is_connected THEN "done"
                                     ELSE IF allow_interruption THEN "pop" ELSE "gate"]_vars

\* the loop timed out on the empty queue during a tool-call batch, went back
\* to the closed gate and is held there with a chunk queued behind it
C34_Witness ==
    /\ AtClosedGate /\ ~allow_interruption /\ is_connected
    /\ sent = <<>> /\ audio_queue # <<>>


(***************************************************************************)
(* C35  What a client message changes                                      *)
(***************************************************************************)
NavigationState == <<current_slide, total_slides>>

\* everything of the session that no client message touches except through
\* the send of the status event of request_summary
LoopsAndStream ==
    <<phase, allow_interruption, fwd_pc, resp_pc, tool_batch, function_responses,
      resp_text, sent, transcript_history>>

\* C35: a slide_info message sets total_slides and current_slide to the
\* values of the message, each raised to 0 when negative and read as 0 when
\* absent, total_slides first (it stays set when the current_slide of the
\* message is unusable); slide_sync sets current_slide that way and keeps
\* total_slides; request_summary, with its status event, and messages of an
\* unknown or missing type keep both; a binary frame keeps both and changes
\* only the audio queue and the chunk counter.  None of them changes the
\* gate, the other loops or what was sent to the inference stream.
C35_ControlMessagesFrame ==
    /\ [][\A total \in ControlTotals, current \in ControlCurrents :
            RxSlideInfoOf(total, current) =>
                /\ total_slides' = Max(0, total)
                /\ current_slide' = Max(0, current)
                /\ UNCHANGED <<LoopsAndStream, is_connected, queueVars, summaries>>]_vars
    /\ [][\A current \in ControlCurrents :
            RxSlideSyncOf(current) =>
                /\ current_slide' = Max(0, current)
                /\ UNCHANGED <<total_slides, LoopsAndStream, is_connected, queueVars,
                               summaries>>]_vars
    /\ [][RxMalformedOf("slide_info_no_fields") =>
                /\ total_slides' = 0 /\ current_slide' = 0
                /\ UNCHANGED <<LoopsAndStream, is_connected, queueVars, summaries>>]_vars
    /\ [][RxMalformedOf("slide_sync_no_field") =>
                /\ current_slide' = 0
                /\ UNCHANGED <<total_slides, LoopsAndStream, is_connected, queueVars,
                               summaries>>]_vars
    /\ [][RxMalformedOf("slide_info_bad_current") =>
                /\ total_slides' \in {Max(0, total) : total \in SessionTotals}
                /\ current_slide' = current_slide]_vars
    /\ [][RxRequestSummary \/ RxStatusSent \/ RxMalformedOf("unknown_type")
                           \/ RxMalformedOf("no_type") =>
                UNCHANGED <<NavigationState, LoopsAndStream, queueVars>>]_vars
    /\ [][RxBinary =>
                /\ UNCHANGED <<NavigationState, LoopsAndStream, is_connected, summaries,
                               is_running, queue_maxsize>>
                /\ chunk_count' \in {chunk_count, chunk_count + 1}]_vars

\* the store after a slide_info with a negative total and a slide_sync that
\* moved current_slide, with audio queued by binary frames
C35_Witness ==
    /\ phase = "ACTIVE" /\ rx_pc = "recv"
    /\ total_slides = 0 /\ current_slide = 3
    /\ chunk_count = 2 /\ audio_queue # <<>>


(***************************************************************************)
(* C36  stop() and a second start()                                        *)
(***************************************************************************)
\* C36: stop(), from whatever state, leaves the queue empty and is_running
\* false; a processor that is not running has an empty queue, and every push
\* (push_audio or push_audio_sync) made while it is not running returns False
\* and leaves queue and chunk counter as they are; start() on a processor
\* that is running keeps is_running, the queue contents and the chunk
\* counter.
C36_StopEmptiesStartIdempotent ==
    /\ [][QStop => audio_queue' = <<>> /\ ~is_running'
                   /\ chunk_count' = chunk_count]_vars
    /\ [](~is_running => audio_queue = <<>>)
    /\ [][(QPush \/ QPushSync) /\ ~is_running =>
            /\ ~ap_last'.ret
            /\ UNCHANGED <<audio_queue, chunk_count, is_running, pushed>>]_vars
    /\ [][QStart /\ is_running =>
            UNCHANGED <<is_running, audio_queue, chunk_count, pushed>>]_vars

\* a push rejected after a stop() that cleared queued chunks
C36_Witness ==
    /\ ~is_running /\ audio_queue = <<>>
    /\ cleared # {} /\ chunk_count >= 2
    /\ ap_last.op = "push_audio" /\ ~ap_last.ret /\ ~ap_last.pre_running


(***************************************************************************)
(* C37  The slide_command event                                            *)
(***************************************************************************)
\* C37: every slide_command event carries as slide_index the current_slide
\* the store has after the navigation call, and a status other than success
\* when the navigation was rejected.
C37_SlideCommandMatchesStore ==
    slide_command.sent =>
        /\ slide_command.slide_index = slide_command.store_slide
        /\ (slide_command.rejected => slide_command.status # "success")


(***************************************************************************)
(* C38  One tool response per batch                                        *)
(***************************************************************************)
\* the batch process_tool_calls is working on, as it was delivered: the calls
\* answered so far followed by the calls still to run
DeliveredBatch ==
    CASE resp_pc = "intent" -> function_responses \o tool_batch
      [] resp_pc = "result" -> function_responses \o Tail(tool_batch)
      [] OTHER -> function_responses

\* the calls a step of process_tool_calls has run
NewlyExecuted ==
    SubSeq(function_responses', Len(function_responses) + 1, Len(function_responses'))

\* C38: while a batch of n >= 1 calls is processed the gate stays closed and
\* the calls are run one after the other in batch order, each answer appended
\* to the answers before it; the tool response is issued once, in a state
\* where nothing of the batch is left to run, carrying the n answers in call
\* order, the answer of each call being what execute_tool returns for it
\* under the id of the call; process_tool_calls is left, and the gate
\* reopened, only after that send (or by cancellation).  A response unit
\* without function calls leads to no tool response.
C38_OneToolResponsePerBatch ==
    /\ [](InProcessToolCalls => ~allow_interruption /\ DeliveredBatch # <<>>)
    /\ [](resp_pc = "respond" =>
            /\ tool_batch = <<>>
            /\ \A i \in 1 .. Len(function_responses), id \in ExecIds :
                 LET r == SessionExecute(function_responses[i], id, current_slide,
                                         total_slides).response
                 IN r.id = id /\ r.name = function_responses[i].name)
    /\ [][InProcessToolCalls /\ InProcessToolCalls' =>
            /\ DeliveredBatch' = DeliveredBatch
            /\ (resp_pc = "respond" => resp_pc' = "respond")
            /\ function_responses' = function_responses \o NewlyExecuted
            /\ (resp_pc' # resp_pc \/ tool_batch' # tool_batch =>
                    current_slide' = ExecuteAll(NewlyExecuted, current_slide, total_slides))]_vars
    /\ [][InProcessToolCalls /\ ~InProcessToolCalls' =>
            /\ allow_interruption'
            /\ (resp_pc = "respond" \/ Shutdown)]_vars
    /\ [][~InProcessToolCalls /\ InProcessToolCalls' =>
            /\ resp_pc' = "intent" /\ tool_batch' # <<>> /\ function_responses' = <<>>]_vars

\* the tool response of a batch of two calls, one rejected by navigate and
\* one for a tool the executor does not know, about to be sent
C38_Witness ==
    /\ resp_pc = "respond" /\ ~allow_interruption /\ is_connected
    /\ function_responses = <<NavCall("jump", None), Call("unknown_tool")>>


(***************************************************************************)
(* C39  The lifecycle only moves forward                                   *)
(***************************************************************************)
\* a step in which a loop or a summary task starts a send to the client: the
\* status event of request_summary, an intent_detected, result or transcript
\* event, or inject_summary
ClientSendStarted ==
    \/ rx_pc' = "status" /\ rx_pc # "status"
    \/ /\ resp_pc' \in {"intent", "result", "text"}
       /\ <<resp_pc', tool_batch'>> # <<resp_pc, tool_batch>>
    \/ summaries'.send > summaries.send

PhaseRank(p) ==
    CASE p = "CONNECTING" -> 0 [] p = "ACTIVE" -> 1 [] p = "CLOSING" -> 2 [] p = "CLOSED" -> 3

\* C39: the connected flag, once false, stays false; the phase never goes
\* back and CLOSED is never left; and every step in which a loop or a
\* background summary task starts a send to the client is taken with the
\* flag true, the flag read being the one safe_send_json tests, so that no
\* send is started once the flag is false.
C39_LifecycleForward ==
    /\ [][~is_connected => ~is_connected']_vars
    /\ [][PhaseRank(phase') >= PhaseRank(phase)]_vars
    /\ [][phase = "CLOSED" => phase' = "CLOSED"]_vars
    /\ [][ClientSendStarted => is_connected /\ is_connected']_vars

\* the flag is false with the session still active, a summary task waiting
\* for its text and the response loop waiting for the next unit
C39_Witness ==
    /\ ~is_connected /\ phase = "ACTIVE"
    /\ summaries.gen = 1 /\ summaries.send = 0
    /\ resp_pc = "recv" /\ rx_pc = "done"


(***************************************************************************)
(* C40  inject_summary                                                     *)
(***************************************************************************)
\* the text-generation collaborator flags a failure by returning "Error: "
\* followed by the exception
ErrorFlagged(text) == text # <<>> /\ Head(text) = "Error:"

\* the summary task starts the send of an inject_summary event
InjectStarted == summaries'.send = summaries.send + 1

\* C40: a summary task starts the send of inject_summary only for a text
\* that is non-empty and not error-flagged, and whenever the generation
\* returned such a text while the client is connected it starts exactly one.
C40_InjectOnSuccess ==
    [][\A text \in SummaryTexts :
        SummaryGeneratedWith(text) =>
            /\ InjectStarted => text # <<>> /\ ~ErrorFlagged(text)
            /\ (text # <<>> /\ ~ErrorFlagged(text) /\ is_connected) => InjectStarted]_vars

=============================================================================
